---- MODULE Spec2Model ----
(***************************************************************************)
(* A model of the DataMigrator migration engine:                           *)
(*   - database.py          Column / Table / Database                      *)
(*   - suspended_list.py    _SuspendInfo / SuspendedList                   *)
(*   - migration_toolkit.py dereference_column / process_cconf /           *)
(*                          execute_migration                              *)
(*                                                                         *)
(* Python objects are records, lists are sequences, dicts are functions    *)
(* (or, where the insertion order is observable, sequences of pairs).      *)
(* An exception is the field exc of a result record: "" means that no      *)
(* exception is in flight, and every operator passes a pending exception   *)
(* on without doing anything else, as Python's unwinding does.             *)
(*                                                                         *)
(* Two specifications are given.  Spec runs execute_migration over the     *)
(* declared sheets and columns; SpecSL drives one SuspendedList by         *)
(* arbitrary append (defer) and check (notify) calls.                      *)
(***************************************************************************)
EXTENDS Integers, Sequences, FiniteSets, TLC

VARIABLES
    pc,         \* execute_migration: where the run stands
    config,     \* execute_migration: config["sheets"] as far as it has been read
    tgt_db,     \* execute_migration: the target Database
    sus_list,   \* execute_migration: the local variable sus_list
    new_table,  \* execute_migration: index in tgt_db.tables of the local new_table
    error,      \* execute_migration: the exception that ended the run
    log,        \* ghost: every process_cconf call of the run, in order
    ended,      \* ghost: per finished sheet, its SuspendedList at the end of the sheet
    sl,         \* SpecSL: the SuspendedList under test
    released,   \* SpecSL: the release_function calls made, in order
    notified,   \* SpecSL ghost: per _SuspendInfo, the keys notified since its append
    sl_exc,     \* SpecSL: the exception raised by the last call ("" if none)
    trace,      \* ghost: the steps of execute_migration taken so far, in order
    column,     \* the Column object that a specification of one class drives
    table,      \* the Table object that a specification of one class drives
    call,       \* the arguments of the last call made on column, table or a function
    outcome,    \* what that call returned or raised
    rows,       \* ghost: the rows that the object under test is expected to hold
    calls       \* ghost: the number of calls made on the object under test

vars == <<pc, config, tgt_db, sus_list, new_table, error, log, ended,
          sl, released, notified, sl_exc, trace, column, table, call, outcome, rows, calls>>
migVars == <<pc, config, tgt_db, sus_list, new_table, error, log, ended, trace>>
slVars == <<sl, released, notified, sl_exc>>
unitVars == <<column, table, call, outcome, rows, calls>>

----------------------------------------------------------------------------
(* Bounds of the model.                                                    *)

\* sheets declared by a configuration
MaxSheets == 2
\* columns declared by a configuration, over all of its sheets
MaxTotalCols == 3
\* SpecSL: append calls made on the list
MaxDeferred == 2
\* SpecSL: length of the wait_for argument of an append call
MaxWait == 2

----------------------------------------------------------------------------
(* Helpers: Python lists and dicts.                                        *)

NULL == "None"

Max(a, b) == IF a >= b THEN a ELSE b

Range(s) == {s[i] : i \in 1..Len(s)}

\* d[k] = v on a dict held as a function
DictSet(d, k, v) == [x \in (DOMAIN d) \cup {k} |-> IF x = k THEN v ELSE d[x]]

EmptyDict == [x \in {} |-> 0]

\* the list s with its element at 1-based position i removed
RemoveAt(s, i) == SubSeq(s, 1, i - 1) \o SubSeq(s, i + 1, Len(s))

\* every occurrence of x goes
ListRemoveAll(s, x) ==
    LET kept(y) == y # x
    IN SelectSeq(s, kept)

\* list.remove(x) on a list that holds x: the first occurrence goes
ListRemove(s, x) ==
    LET i == CHOOSE j \in 1..Len(s) : s[j] = x /\ \A k \in 1..(j - 1) : s[k] # x
    IN RemoveAt(s, i)

----------------------------------------------------------------------------
(* database.py: Column and its subclasses.  A column is a record; kind is  *)
(* the class of the object.                                                *)

\* Column.__init__ with the default mapping {"_Other": "_Origin"}: the data
\* argument (a list, or the data of a Column) is copied; a mapping whose
\* values are all "_Origin" leaves the copy as it is.
NewColumn(title, data) ==
    [kind |-> "Column", title |-> title, data |-> data]

PlaceHolderColumn ==
    [kind |-> "PlaceHolderColumn", title |-> "", data |-> <<>>]

EmptyColumn(title) ==
    [kind |-> "EmptyColumn", title |-> title, data |-> <<>>]

\* count(): -1 for the columns of unbounded length
Count(c) ==
    IF c.kind \in {"EmptyColumn", "FilledColumn", "IndexColumn"}
    THEN -1
    ELSE Len(c.data)

----------------------------------------------------------------------------
(* database.py: the row operations of the column classes.  The method of   *)
(* the class of the object is the one that runs: an operator on a column   *)
(* chooses by c.kind.  A row index is a Python index, from 0.              *)

\* FilledColumn.__init__
FilledColumn(title, filler) ==
    [kind |-> "FilledColumn", title |-> title, data |-> <<>>, filler |-> filler]

\* IndexColumn.__init__
IndexColumn(title, start_from) ==
    [kind |-> "IndexColumn", title |-> title, data |-> <<>>, start_from |-> start_from]

\* get_data of Column (PlaceHolderColumn inherits it), EmptyColumn,
\* FilledColumn and IndexColumn
get_data(c, index) ==
    IF c.kind = "EmptyColumn" THEN NULL
    ELSE IF c.kind = "FilledColumn" THEN c.filler
    ELSE IF index < Len(c.data) THEN c.data[index + 1]
    ELSE IF c.kind = "IndexColumn" THEN c.start_from + index
    ELSE NULL

\* Column.del_row
Column_del_row(c, index) ==
    IF index < Len(c.data) THEN [c EXCEPT !.data = RemoveAt(@, index + 1)] ELSE c

\* line 213 without its effect: start_from kept as it is
SameStart(start_from) == start_from

\* line 213, self.start_from += 1
NextStart(start_from) == start_from + 1

\* IndexColumn.del_row: the rows up to index are appended to data, the row
\* is deleted, start_from is advanced
IndexColumn_del_row(c, index) ==
    LET n == Len(c.data)
        filled == IF n <= index
                  THEN c.data \o [i \in 1..(index + 1 - n) |-> c.start_from + (n + i - 1)]
                  ELSE c.data
    IN [Column_del_row([c EXCEPT !.data = filled], index)
           EXCEPT !.start_from = NextStart(@)]

\* c.del_row(index)
del_row(c, index) ==
    IF c.kind \in {"PlaceHolderColumn", "EmptyColumn", "FilledColumn"} THEN c
    ELSE IF c.kind = "IndexColumn" THEN IndexColumn_del_row(c, index)
    ELSE Column_del_row(c, index)

----------------------------------------------------------------------------
(* database.py: the mapping dict of a Column.  A mapping is a function     *)
(* from its keys to its values; Unbound stands for the local variable m    *)
(* before its first assignment.                                            *)

Unbound == "<unbound>"

\* never the fast path
NoFastPath(mapping) == FALSE

\* lines 114-118: the for-else over mapping.values() returns when no value
\* differs from "_Origin"
AllOrigin(mapping) == \A k \in DOMAIN mapping : mapping[k] = "_Origin"

\* lines 121-124: m after the if/elif for the cell v; m keeps its value
\* when neither branch is taken
Lookup(mapping, v, m) ==
    IF v \in DOMAIN mapping THEN mapping[v]
    ELSE IF "_Other" \in DOMAIN mapping THEN mapping["_Other"]
    ELSE m

\* lines 126-127 for cell i once m is known; reading an unbound m raises
WriteCell(data, i, m) ==
    IF m # "_Origin" THEN [data EXCEPT ![i] = m] ELSE data

\* lines 120-127: the loop over the cells from cell i on
RECURSIVE MapCells(_, _, _, _)
MapCells(data, mapping, i, m) ==
    IF i > Len(data) THEN [exc |-> "", data |-> data]
    ELSE IF Lookup(mapping, data[i], m) = Unbound
    THEN [exc |-> "UnboundLocalError", data |-> data]
    ELSE MapCells(WriteCell(data, i, Lookup(mapping, data[i], m)), mapping, i + 1,
                  Lookup(mapping, data[i], m))

\* Column._mapping_dict
mapping_dict(data, mapping) ==
    IF AllOrigin(mapping) THEN [exc |-> "", data |-> data]
    ELSE MapCells(data, mapping, 1, Unbound)

\* Column.__init__ with data (a list, or the data of a Column, copied) and a
\* mapping dict: [exc, col]
Column_init(title, data, mapping) ==
    IF data = <<>> THEN [exc |-> "", col |-> NewColumn(title, <<>>)]
    ELSE [exc |-> mapping_dict(data, mapping).exc,
          col |-> NewColumn(title, mapping_dict(data, mapping).data)]

----------------------------------------------------------------------------
(* database.py: Table.  columns is the list of columns, column_index the   *)
(* dict _column_index (title -> 0-based position), max_row_num the field   *)
(* _max_row_num.  Positions are 0-based as in the source; the list itself  *)
(* is a TLA+ sequence, so position p is element p + 1.                     *)

NewTable(name) ==
    [name |-> name, columns |-> <<>>, column_index |-> EmptyDict, max_row_num |-> 0]

append_column(t, new_column) ==
    [t EXCEPT !.columns = Append(t.columns, new_column),
              !.column_index = DictSet(t.column_index, new_column.title, Len(t.columns)),
              !.max_row_num = Max(Count(new_column), t.max_row_num)]

\* appends a placeholder; the returned index is Len(t.columns) of the old table
suspended_column(t) ==
    [t EXCEPT !.columns = Append(t.columns, PlaceHolderColumn)]

insert_column(t, index, new_column) ==
    LET padded == IF index >= Len(t.columns)
                  THEN t.columns \o [i \in 1..(index - Len(t.columns) + 1) |-> PlaceHolderColumn]
                  ELSE t.columns
    IN [t EXCEPT !.columns = [padded EXCEPT ![index + 1] = new_column],
                 !.column_index = DictSet(t.column_index, new_column.title, index),
                 !.max_row_num = Max(Count(new_column), t.max_row_num)]

\* get_column(title), exact lookup: a KeyError when the title is no key of
\* _column_index
HasColumn(t, column_title) == column_title \in DOMAIN t.column_index

get_column(t, column_title) == t.columns[t.column_index[column_title] + 1]

----------------------------------------------------------------------------
(* database.py: swap_row of the column classes and the row operations of   *)
(* Table.  An operation that can raise gives [exc, ...]: exc is "" when it *)
(* returns, and the object is as the exception left it otherwise.          *)

\* Column.swap_row
Column_swap_row(c, i0, i1) ==
    IF i0 = i1 THEN c
    ELSE LET lo == IF i0 > i1 THEN i1 ELSE i0
             hi == IF i0 > i1 THEN i0 ELSE i1
             n == Count(c)
             ext == IF n <= hi THEN c.data \o [k \in 1..(hi - n + 1) |-> NULL] ELSE c.data
         IN [c EXCEPT !.data = [ext EXCEPT ![lo + 1] = ext[hi + 1], ![hi + 1] = ext[lo + 1]]]

\* IndexColumn.swap_row: the first round of the loop evaluates
\* self.get_data[i], a subscript of a method, which raises TypeError
IndexColumn_swap_row(c, i0, i1) ==
    IF Len(c.data) - 1 < Max(i0, i1)
    THEN [exc |-> "TypeError", col |-> c]
    ELSE [exc |-> "", col |-> Column_swap_row(c, i0, i1)]

\* c.swap_row(i0, i1)
swap_row(c, i0, i1) ==
    IF c.kind \in {"PlaceHolderColumn", "EmptyColumn", "FilledColumn"}
    THEN [exc |-> "", col |-> c]
    ELSE IF c.kind = "IndexColumn" THEN IndexColumn_swap_row(c, i0, i1)
    ELSE [exc |-> "", col |-> Column_swap_row(c, i0, i1)]

\* Table.del_row
Table_del_row(t, index) ==
    [t EXCEPT !.columns = [n \in 1..Len(t.columns) |-> del_row(t.columns[n], index)],
              !.max_row_num = @ - 1]

\* the loop of Table.swap_row from column n on; it ends at the first column
\* whose swap_row raises
RECURSIVE SwapColumns(_, _, _, _)
SwapColumns(t, n, i0, i1) ==
    IF n > Len(t.columns) THEN [exc |-> "", t |-> t]
    ELSE IF swap_row(t.columns[n], i0, i1).exc # ""
    THEN [exc |-> swap_row(t.columns[n], i0, i1).exc, t |-> t]
    ELSE SwapColumns([t EXCEPT !.columns[n] = swap_row(t.columns[n], i0, i1).col],
                     n + 1, i0, i1)

\* Table.swap_row
Table_swap_row(t, i0, i1) ==
    IF i0 = i1 THEN [exc |-> "", t |-> t]
    ELSE IF t.max_row_num <= Max(i0, i1) THEN [exc |-> "IndexError", t |-> t]
    ELSE SwapColumns(t, 1, i0, i1)

\* the loop of Table.move_to_end from row i on
RECURSIVE MoveRows(_, _)
MoveRows(t, i) ==
    IF i >= t.max_row_num - 1 THEN [exc |-> "", t |-> t]
    ELSE IF Table_swap_row(t, i, i + 1).exc # "" THEN Table_swap_row(t, i, i + 1)
    ELSE MoveRows(Table_swap_row(t, i, i + 1).t, i + 1)

\* Table.move_to_end
move_to_end(t, index) ==
    IF t.max_row_num <= index THEN [exc |-> "IndexError", t |-> t]
    ELSE IF t.max_row_num - 1 = index THEN [exc |-> "", t |-> t]
    ELSE MoveRows(t, index)

----------------------------------------------------------------------------
(* database.py: Database.                                                  *)

NewDatabase == [tables |-> <<>>, table_index |-> EmptyDict]

\* add_table(name); the new table is the last of db.tables
add_table(db, name) ==
    [tables |-> Append(db.tables, NewTable(name)),
     table_index |-> DictSet(db.table_index, name, Len(db.tables))]

has_table(db, name) == name \in DOMAIN db.table_index

get_table(db, name) == db.tables[db.table_index[name] + 1]

----------------------------------------------------------------------------
(* migration_toolkit.py: column references.                                *)
(*                                                                         *)
(* A reference is the pair <<table_ref, column_ref>> of the configuration. *)
(* The string table_ref is held as [prefix, name], standing for the text   *)
(* prefix followed by name: <<"_This.", "S">> is "_This.S" and             *)
(* <<"", "People">> is "People".  A text that starts with "_Add" or "_Sub" *)
(* is held as [prefix, n, dot, name]: the prefix, the decimal digits of n  *)
(* (none when n is NoDigits), a dot when dot holds, then name.             *)

TableRef(prefix, name) == [prefix |-> prefix, name |-> name]

\* re.match(r"_This\..+", table_ref), and r"(_This\.)(.+)" in _SuspendInfo:
\* the text starts with "_This." and at least one character follows
MatchThis(table_ref) == table_ref.prefix = "_This." /\ table_ref.name # ""

\* table_ref[6:], and m.group(2)
AfterThis(table_ref) == table_ref.name

NoDigits == -1

NumberedRef(prefix, n, dot, name) ==
    [prefix |-> prefix, n |-> n, dot |-> dot, name |-> name]

\* matches no text
NeverMatch(table_ref) == FALSE

\* re.match(r"(_Add)([0-9]+)\.(.+)", table_ref)
MatchAdd(table_ref) ==
    /\ table_ref.prefix = "_Add"
    /\ table_ref.n # NoDigits
    /\ table_ref.dot
    /\ table_ref.name # ""

\* re.match(r"(_Sub)([0-9]+)", table_ref): what follows the digits is not
\* looked at
MatchSub(table_ref) == table_ref.prefix = "_Sub" /\ table_ref.n # NoDigits

\* str(n) for the numbers of this model
DigitsText(n) ==
    CASE n = 0 -> "0" [] n = 1 -> "1" [] n = 2 -> "2" [] n = 3 -> "3" [] OTHER -> "9"

\* the text that the record stands for
RefText(table_ref) ==
    IF table_ref.prefix \in {"_Add", "_Sub"}
    THEN table_ref.prefix \o (IF table_ref.n = NoDigits THEN "" ELSE DigitsText(table_ref.n))
                          \o (IF table_ref.dot THEN "." ELSE "") \o table_ref.name
    ELSE table_ref.prefix \o table_ref.name

\* the last branch takes the whole text for the name of a table
PlainName(table_ref) == RefText(table_ref)

\* the primary source dataset: the tables People, of two rows, and Pets, of
\* one row, each with the column Name
src_db ==
    [tables |-> << [name |-> "People",
                    columns |-> << NewColumn("Name", <<"Al", "Bo">>) >>,
                    column_index |-> [x \in {"Name"} |-> 0],
                    max_row_num |-> 2],
                   [name |-> "Pets",
                    columns |-> << NewColumn("Name", <<"Rex">>) >>,
                    column_index |-> [x \in {"Name"} |-> 0],
                    max_row_num |-> 1] >>,
     table_index |-> [x \in {"People", "Pets"} |-> IF x = "People" THEN 0 ELSE 1]]

\* the auxiliary datasets and the sub-tables of the runs of this model:
\* execute_migration is called without ex_src_db, and get_sub_db finds no
\* subsheets to derive
ex_src_db == <<>>

sub_db == NewDatabase

\* the characters of the titles and column references that a loose lookup
\* of this model compares
Chars(text) ==
    CASE text = "" -> <<>>
      [] text = "Name" -> <<"N", "a", "m", "e">>
      [] text = "Na me" -> <<"N", "a", " ", "m", "e">>
      [] text = "Na" -> <<"N", "a">>
      [] text = "Nope" -> <<"N", "o", "p", "e">>
      [] text = "Al" -> <<"A", "l">>
      [] text = "Bo" -> <<"B", "o">>
      [] text = "Rex" -> <<"R", "e", "x">>
      [] OTHER -> <<text>>

NotSpace(ch) == ch # " "

\* re.sub(r"\s", '', text)
StripSpace(chars) == SelectSeq(chars, NotSpace)

\* re.match(pattern, text) for a pattern without special characters
MatchesStart(pattern, text) ==
    Len(pattern) <= Len(text) /\ SubSeq(text, 1, Len(pattern)) = pattern

\* the test of the loop of get_column(column_title, loose = True)
LooseMatch(column_title, title) ==
    \/ StripSpace(Chars(title)) = StripSpace(Chars(column_title))
    \/ MatchesStart(Chars(column_title), Chars(title))

\* get_column(column_title, True): the first column that matches, or a
\* KeyError
LooseColumn(t, column_title) ==
    IF \E n \in 1..Len(t.columns) : LooseMatch(column_title, t.columns[n].title)
    THEN [exc |-> "",
          col |-> t.columns[CHOOSE n \in 1..Len(t.columns) :
                               /\ LooseMatch(column_title, t.columns[n].title)
                               /\ \A m \in 1..(n - 1) :
                                      ~LooseMatch(column_title, t.columns[m].title)]]
    ELSE [exc |-> "KeyError", col |-> PlaceHolderColumn]

\* db.get_table(name).get_column(column_ref): the referred column, or a
\* KeyError when the table or the column is missing
ExactColumn(db, name, column_ref) ==
    IF ~has_table(db, name) THEN [exc |-> "KeyError", col |-> PlaceHolderColumn]
    ELSE IF ~HasColumn(get_table(db, name), column_ref)
    THEN [exc |-> "KeyError", col |-> PlaceHolderColumn]
    ELSE [exc |-> "", col |-> get_column(get_table(db, name), column_ref)]

\* dereference_column: [exc, col].  An index beyond the list of auxiliary
\* datasets or of sub-tables is an IndexError.
dereference_column(src, ex_src, sub, tgt, table_ref, column_ref) ==
    IF MatchThis(table_ref) THEN ExactColumn(tgt, AfterThis(table_ref), column_ref)
    ELSE IF MatchAdd(table_ref)
    THEN IF table_ref.n >= Len(ex_src)
         THEN [exc |-> "IndexError", col |-> PlaceHolderColumn]
         ELSE ExactColumn(ex_src[table_ref.n + 1], table_ref.name, column_ref)
    ELSE IF MatchSub(table_ref)
    THEN IF table_ref.n >= Len(sub.tables)
         THEN [exc |-> "IndexError", col |-> PlaceHolderColumn]
         ELSE LooseColumn(sub.tables[table_ref.n + 1], column_ref)
    ELSE ExactColumn(src, PlainName(table_ref), column_ref)

----------------------------------------------------------------------------
(* pjshon.py / exec: the transform script of a dependence column.          *)

\* the script of the configurations of this model
GreetScript == "for i in range(l): tgt[i] = 'Hi ' + dpd[0][i]"

\* exec(pjshon.parse(script), context) on context {l, tgt, dpd}: the value of
\* context["tgt"] afterwards, or the exception the script raised.  'Hi ' + x
\* is a TypeError when x is None, and dpd[0][i] an IndexError past the list.
RunScript(script, l, tgt, dpd) ==
    IF script = GreetScript
    THEN IF \E i \in 1..l : i > Len(dpd[1])
         THEN [exc |-> "IndexError", tgt |-> tgt]
         ELSE IF \E i \in 1..l : dpd[1][i] = NULL
         THEN [exc |-> "TypeError", tgt |-> tgt]
         ELSE [exc |-> "", tgt |-> [i \in 1..l |-> "Hi " \o dpd[1][i]]]
    ELSE [exc |-> "SyntaxError", tgt |-> tgt]

----------------------------------------------------------------------------
(* migration_toolkit.py: process_cconf.                                    *)
(*                                                                         *)
(* A column specification col_conf is a record; keys is the set of the     *)
(* construction keys present in the dict; a field of the record is read    *)
(* only when its key is in keys.  A scalar of the configuration or of the  *)
(* argument list is [type, ...]: a str with its text s, an int with its    *)
(* value n, or, of type "arg", the str "_arg" followed by the digits of    *)
(* index.                                                                  *)

StrScalar(s) == [type |-> "str", s |-> s]
IntScalar(n) == [type |-> "int", n |-> n]
ArgKeyword(index) == [type |-> "arg", index |-> index]

\* the argument list of the runs of this model
args == <<StrScalar("7"), StrScalar("z")>>

\* substitute_args: re.match raises TypeError for a scalar that is no str
substitute_args(s, arg_list) ==
    IF s.type = "int" THEN [exc |-> "TypeError", val |-> s]
    ELSE IF s.type = "arg"
    THEN IF s.index < Len(arg_list)
         THEN [exc |-> "", val |-> arg_list[s.index + 1]]
         ELSE [exc |-> "IndexError", val |-> s]
    ELSE [exc |-> "", val |-> s]

\* int(v) for the scalars of this model
IntOf(v) ==
    IF v.type = "int" THEN [exc |-> "", n |-> v.n]
    ELSE IF v.type = "str" /\ v.s \in {"0", "1", "5", "7"}
    THEN [exc |-> "", n |-> CASE v.s = "0" -> 0 [] v.s = "1" -> 1
                                [] v.s = "5" -> 5 [] OTHER -> 7]
    ELSE [exc |-> "ValueError", n |-> 0]

\* the Python value that a scalar stands for, as a cell holds it
PyValue(v) == IF v.type = "int" THEN v.n ELSE v.s

\* the branches of lines 146-208 taken in the reverse order
LastStrategy(col_conf) ==
    IF "dependence" \in col_conf.keys THEN "dependence"
    ELSE IF "fill_with" \in col_conf.keys THEN "fill_with"
    ELSE IF "index_start" \in col_conf.keys THEN "index_start"
    ELSE IF "copy_from" \in col_conf.keys THEN "copy_from"
    ELSE "empty"

\* the branch of the if/elif chain of lines 146, 179, 184, 189, 207
Strategy(col_conf) ==
    IF "copy_from" \in col_conf.keys THEN "copy_from"
    ELSE IF "index_start" \in col_conf.keys THEN "index_start"
    ELSE IF "fill_with" \in col_conf.keys THEN "fill_with"
    ELSE IF "dependence" \in col_conf.keys THEN "dependence"
    ELSE "empty"

\* the argument pos left at its default None
NoPos == -1

\* the local add_column: "if pos:" is false for None and for 0
add_column(t, pos, new_column) ==
    IF pos # NoPos /\ pos # 0
    THEN insert_column(t, pos, new_column)
    ELSE append_column(t, new_column)

\* line 197 read as l = len(dpd): a buffer as long as the list of the
\* dependencies
BufferLengthOfList(dpd) == Len(dpd)

\* line 197, l = len(dpd[0]): the length of the target buffer
BufferLength(dpd) == Len(dpd[1])

\* the column of lines 153-177 from the referred column d: [exc, col]
CopiedColumn(col_conf, d) ==
    IF "mapping" \in col_conf.keys
    THEN Column_init(col_conf.title, d.data, col_conf.mapping)
    ELSE [exc |-> "", col |-> NewColumn(col_conf.title, d.data)]

\* the column of lines 180-183: [exc, col]
IndexStartColumn(col_conf) ==
    IF substitute_args(col_conf.index_start, args).exc # ""
    THEN [exc |-> substitute_args(col_conf.index_start, args).exc, col |-> PlaceHolderColumn]
    ELSE IF IntOf(substitute_args(col_conf.index_start, args).val).exc # ""
    THEN [exc |-> "ValueError", col |-> PlaceHolderColumn]
    ELSE [exc |-> "",
          col |-> IndexColumn(col_conf.title,
                              IntOf(substitute_args(col_conf.index_start, args).val).n)]

\* the column of lines 185-188: [exc, col]
FillWithColumn(col_conf) ==
    IF substitute_args(col_conf.fill_with, args).exc # ""
    THEN [exc |-> substitute_args(col_conf.fill_with, args).exc, col |-> PlaceHolderColumn]
    ELSE [exc |-> "",
          col |-> FilledColumn(col_conf.title,
                               PyValue(substitute_args(col_conf.fill_with, args).val))]

\* t is tgt.tables[ti].  ret is the returned bool, exc an exception that
\* left the function, tgt_db the target Database afterwards.
process_cconf(tgt, ti, col_conf, pos) ==
    LET Added(c) == [tgt EXCEPT !.tables[ti] = add_column(tgt.tables[ti], pos, c)]
        Deferred == [ret |-> FALSE, exc |-> "", tgt_db |-> tgt]
        Raised(exc) == [ret |-> FALSE, exc |-> exc, tgt_db |-> tgt]
        Built(r) == IF r.exc # "" THEN Raised(r.exc)
                    ELSE [ret |-> TRUE, exc |-> "", tgt_db |-> Added(r.col)]
    IN
    IF Strategy(col_conf) = "copy_from"
    THEN LET d == dereference_column(src_db, ex_src_db, sub_db, tgt,
                                     col_conf.copy_from[1], col_conf.copy_from[2])
         IN IF d.exc = "KeyError" THEN Deferred
            ELSE IF d.exc # "" THEN Raised(d.exc)
            ELSE Built(CopiedColumn(col_conf, d.col))
    ELSE IF Strategy(col_conf) = "index_start" THEN Built(IndexStartColumn(col_conf))
    ELSE IF Strategy(col_conf) = "fill_with" THEN Built(FillWithColumn(col_conf))
    ELSE IF Strategy(col_conf) = "dependence"
    THEN LET refs == col_conf.dependence
             ds == [i \in 1..Len(refs) |->
                       dereference_column(src_db, ex_src_db, sub_db, tgt,
                                          refs[i][1], refs[i][2])]
         IN IF \E i \in 1..Len(refs) : ds[i].exc = "KeyError"
            THEN Deferred
            ELSE IF \E i \in 1..Len(refs) : ds[i].exc # ""
            THEN Raised("IndexError")
            ELSE IF Len(refs) = 0
            THEN Raised("IndexError")
            ELSE LET dpd == [i \in 1..Len(refs) |-> ds[i].col.data]
                     l == BufferLength(dpd)
                     run == RunScript(col_conf.script, l, [i \in 1..l |-> NULL], dpd)
                 IN IF run.exc # ""
                    THEN Raised(run.exc)
                    ELSE [ret |-> TRUE, exc |-> "",
                          tgt_db |-> Added(NewColumn(col_conf.title, run.tgt))]
    ELSE [ret |-> TRUE, exc |-> "", tgt_db |-> Added(EmptyColumn(col_conf.title))]

----------------------------------------------------------------------------
(* The release functions a SuspendedList is constructed with.  The field   *)
(* release_function of the list holds the function as a value: fn names    *)
(* it, and new_table is the table the lambda of execute_migration closes   *)
(* over.  A release function acts on a context ctx with a field exc.       *)

\* ghost: one process_cconf call; table is the position of t in tgt_db.tables
Attempt(ti, col_conf, pos, r) ==
    [table |-> ti, title |-> col_conf.title, pos |-> pos, ret |-> r.ret, exc |-> r.exc]

\* the context after a call of process_cconf that gave r
Logged(ctx, ti, conf, ind, r) ==
    [tgt_db |-> r.tgt_db, exc |-> r.exc,
     log |-> Append(ctx.log, Attempt(ti, conf, ind, r))]

\* the lambda of lines 280-282 of migration_toolkit.py, on the context
\* [tgt_db, exc, log]; the bool that process_cconf returns is dropped by
\* _SuspendInfo.release
ReleaseFunction(ctx, ti, conf, ind) ==
    Logged(ctx, ti, conf, ind, process_cconf(ctx.tgt_db, ti, conf, ind))

\* a release function that records its call, on the context [exc, released]
RecordRelease(ctx, conf, ind) ==
    [ctx EXCEPT !.released = Append(@, [conf |-> conf, index |-> ind])]

ProcessCconfFunction(ti) == [fn |-> "process_cconf", new_table |-> ti]

RecordFunction == [fn |-> "record", new_table |-> 0]

\* self.release_func(self.conf, self.index), line 45
CallRelease(rel_f, ctx, conf, ind) ==
    IF rel_f.fn = "process_cconf"
    THEN ReleaseFunction(ctx, rel_f.new_table, conf, ind)
    ELSE RecordRelease(ctx, conf, ind)

----------------------------------------------------------------------------
(* suspended_list.py: _SuspendInfo and SuspendedList.                      *)
(*                                                                         *)
(* A SuspendedList is [bound, release_function, waitlist, objs].  objs is  *)
(* the heap of the                                                         *)
(* _SuspendInfo objects made by append, in creation order; an object is    *)
(* named by its position in objs, so that one object held by several       *)
(* buckets is one record.  waitlist is the dict in insertion order, a      *)
(* list of [key, infos], infos being the bucket's list of object names.    *)
(* bound is FALSE while execute_migration has not assigned sus_list.       *)

NewSuspendedList(rel_f) ==
    [bound |-> TRUE, release_function |-> rel_f, waitlist |-> <<>>, objs |-> <<>>]

UnboundSuspendedList ==
    [bound |-> FALSE, release_function |-> RecordFunction, waitlist |-> <<>>, objs |-> <<>>]

\* _SuspendInfo.__init__, lines 37-39: the references whose table_ref
\* matches "_This.", each as the key (table name, column title)
ThisKeys(wait_for) ==
    LET isThis(ref) == MatchThis(ref[1])
        kept == SelectSeq(wait_for, isThis)
    IN [i \in 1..Len(kept) |-> <<AfterThis(kept[i][1]), kept[i][2]>>]

\* _SuspendInfo.__init__ without lines 41-42: the new object, whatever its
\* wait_for
UncheckedInfo(conf, wait_for, index) ==
    [exc |-> "",
     info |-> [conf |-> conf, wait_for |-> ThisKeys(wait_for), index |-> index,
               released |-> FALSE]]

\* _SuspendInfo.__init__: the new object, or the exception of line 42
SuspendInfo(conf, wait_for, index) ==
    IF ThisKeys(wait_for) = <<>>
    THEN [exc |-> "DependencyError",
          info |-> [conf |-> conf, wait_for |-> <<>>, index |-> index, released |-> FALSE]]
    ELSE [exc |-> "",
          info |-> [conf |-> conf, wait_for |-> ThisKeys(wait_for), index |-> index,
                    released |-> FALSE]]

\* key in self.waitlist
InWaitlist(waitlist, key) == \E i \in 1..Len(waitlist) : waitlist[i].key = key

KeyPos(waitlist, key) == CHOOSE i \in 1..Len(waitlist) : waitlist[i].key = key

\* self.waitlist[key]
Bucket(waitlist, key) == waitlist[KeyPos(waitlist, key)].infos

\* SuspendedList.append, lines 91-97: the loop over new_info.wait_for ends
\* at the first key that already has a bucket
Register(waitlist, wait_for, id) ==
    LET loop[i \in 0..Len(wait_for)] ==
            IF i = 0 THEN [waitlist |-> waitlist, returned |-> FALSE]
            ELSE LET st == loop[i - 1]
                     wf == wait_for[i]
                 IN IF st.returned THEN st
                    ELSE IF InWaitlist(st.waitlist, wf)
                    THEN [waitlist |-> [st.waitlist EXCEPT ![KeyPos(st.waitlist, wf)].infos =
                                            Append(@, id)],
                          returned |-> TRUE]
                    ELSE [waitlist |-> Append(st.waitlist, [key |-> wf, infos |-> <<id>>]),
                          returned |-> FALSE]
    IN loop[Len(wait_for)].waitlist

\* SuspendedList.append.  this_sheet_name is not read by the source.
SL_append(s, conf, this_sheet_name, wait_for, index) ==
    LET new_info == SuspendInfo(conf, wait_for, index)
        id == Len(s.objs) + 1
    IN IF new_info.exc # ""
       THEN [exc |-> new_info.exc, sl |-> s]
       ELSE [exc |-> "",
             sl |-> [s EXCEPT !.objs = Append(s.objs, new_info.info),
                              !.waitlist = Register(s.waitlist, new_info.info.wait_for, id)]]

\* line 106 without its test of wait_for: a check that releases an object
\* at the first of its keys
ReleasableAtFirstKey(is_released, wait_for) == ~is_released

\* line 106 without any test: a check that releases every object of the
\* bucket, released before or not
AlwaysReleasable(is_released, wait_for) == TRUE

\* line 106: the test that lets check release an object
Releasable(is_released, wait_for) == ~is_released /\ wait_for = <<>>

\* _SuspendInfo.release, lines 44-46: after is the context that the release
\* function left; released is set unless an exception left the function
Release(objs, id, after) ==
    [objs |-> IF after.exc = "" THEN [objs EXCEPT ![id].released = TRUE] ELSE objs,
     ctx |-> after]

\* line 109, del self.waitlist[new_col_info], reached when no exception
\* left the loop; end holds the objects and the context after the loop
DeleteBucket(s, new_col_info, end) ==
    [sl |-> [s EXCEPT !.objs = end.objs,
                      !.waitlist = IF end.ctx.exc = ""
                                   THEN RemoveAt(@, KeyPos(@, new_col_info))
                                   ELSE @],
     ctx |-> end.ctx]

\* SuspendedList.check.  ctx is what the release function acts on.
\* _SuspendInfo.release sets released after the function returned.
\* wait_for.remove raises a ValueError when the key is not in the list.  An
\* exception leaves the loop, so the bucket is kept.
SL_check(s, ctx, new_col_info) ==
    IF ~InWaitlist(s.waitlist, new_col_info)
    THEN [sl |-> s, ctx |-> ctx]
    ELSE
    LET bucket == Bucket(s.waitlist, new_col_info)
        step(st, id) ==
            IF st.ctx.exc # "" THEN st
            ELSE IF new_col_info \notin Range(st.objs[id].wait_for)
            THEN [st EXCEPT !.ctx.exc = "ValueError"]
            ELSE LET wf == ListRemove(st.objs[id].wait_for, new_col_info)
                     removed == [st.objs EXCEPT ![id].wait_for = wf]
                 IN IF Releasable(st.objs[id].released, wf)
                    THEN Release(removed, id,
                                 CallRelease(s.release_function, st.ctx,
                                             st.objs[id].conf, st.objs[id].index))
                    ELSE [objs |-> removed, ctx |-> st.ctx]
        loop[i \in 0..Len(bucket)] ==
            IF i = 0 THEN [objs |-> s.objs, ctx |-> ctx]
            ELSE step(loop[i - 1], bucket[i])
    IN DeleteBucket(s, new_col_info, loop[Len(bucket)])

something_here(s) == s.waitlist # <<>>

\* raise_exception: the lines of the message, one per object of every
\* bucket, in dict order
ExceptionLines(s, table_name) ==
    LET lines(b) == [j \in 1..Len(b.infos) |->
                        [table |-> table_name,
                         title |-> s.objs[b.infos[j]].conf.title,
                         index |-> s.objs[b.infos[j]].index,
                         wait_for |-> s.objs[b.infos[j]].wait_for]]
        cat[i \in 0..Len(s.waitlist)] ==
            IF i = 0 THEN <<>> ELSE cat[i - 1] \o lines(s.waitlist[i])
    IN cat[Len(s.waitlist)]

----------------------------------------------------------------------------
(* migration_toolkit.py: execute_migration, lines 276-326.                 *)
(*                                                                         *)
(* The run of execute_migration is the record [tgt_db, sus_list, exc, log].*)
(* log is a ghost: one entry per process_cconf call, in call order.        *)

\* lines 294-298: sus_list.append(...) gave a
Suspended(r, ti, log1, a) ==
    [tgt_db |-> [r.tgt_db EXCEPT !.tables[ti] = suspended_column(@)],
     sus_list |-> a.sl, exc |-> a.exc, log |-> log1]

\* line 302: sus_list.check(...) gave c
Checked(c) ==
    [tgt_db |-> c.ctx.tgt_db, sus_list |-> c.sl, exc |-> c.ctx.exc, log |-> c.ctx.log]

\* lines 289-302, after process_cconf gave r
AfterAttempt(st, name, ti, cconf, r) ==
    LET log1 == Append(st.log, Attempt(ti, cconf, NoPos, r))
    IN
    IF r.exc # ""
    THEN [st EXCEPT !.exc = r.exc, !.log = log1]
    ELSE IF ~r.ret
    THEN Suspended(r, ti, log1,
                   SL_append(st.sus_list, cconf, name,
                             IF "copy_from" \in cconf.keys
                             THEN <<cconf.copy_from>>
                             ELSE cconf.dependence,
                             Len(r.tgt_db.tables[ti].columns)))
    ELSE Checked(SL_check(st.sus_list,
                          [tgt_db |-> r.tgt_db, exc |-> "", log |-> log1],
                          <<name, cconf.title>>))

\* the body of the loop over sconf["columns"], lines 286-302, for the sheet
\* called name whose table is tgt_db.tables[ti]
ColumnStep(st, name, ti, cconf) ==
    AfterAttempt(st, name, ti, cconf, process_cconf(st.tgt_db, ti, cconf, NoPos))

\* lines 277-282: the table and the SuspendedList of the next sheet
SheetStart(st, name) ==
    [st EXCEPT !.tgt_db = add_table(st.tgt_db, name),
               !.sus_list = NewSuspendedList(ProcessCconfFunction(Len(st.tgt_db.tables) + 1))]

\* lines 304-305, after the loop over the sheets
DependencyErrorRaised(st) == st.sus_list.bound /\ something_here(st.sus_list)

NoError == [type |-> "", lines |-> <<>>]

\* lines 276-302 on a whole list of sheets: the run after the last sheet,
\* or at the first exception
RunSheets(sheets) ==
    LET start == [tgt_db |-> NewDatabase, sus_list |-> UnboundSuspendedList,
                  exc |-> "", log |-> <<>>]
        sheet(st, sconf) ==
            LET st0 == SheetStart(st, sconf.name)
                ti == Len(st0.tgt_db.tables)
                cols[j \in 0..Len(sconf.columns)] ==
                    IF j = 0 THEN st0
                    ELSE IF cols[j - 1].exc # "" THEN cols[j - 1]
                    ELSE ColumnStep(cols[j - 1], sconf.name, ti, sconf.columns[j])
            IN cols[Len(sconf.columns)]
        loop[i \in 0..Len(sheets)] ==
            IF i = 0 THEN start
            ELSE IF loop[i - 1].exc # "" THEN loop[i - 1]
            ELSE sheet(loop[i - 1], sheets[i])
    IN loop[Len(sheets)]

\* execute_migration on a configuration with the given sheets and no hooks:
\* status is "returned" (tgt_db is the returned Database) or "raised"
execute_migration(sheets) ==
    LET st == RunSheets(sheets)
    IN IF st.exc # ""
       THEN [status |-> "raised", error |-> [type |-> st.exc, lines |-> <<>>],
             tgt_db |-> st.tgt_db]
       ELSE IF DependencyErrorRaised(st)
       THEN [status |-> "raised",
             error |-> [type |-> "DependencyError",
                        lines |-> ExceptionLines(st.sus_list,
                                                 st.tgt_db.tables[Len(st.tgt_db.tables)].name)],
             tgt_db |-> st.tgt_db]
       ELSE [status |-> "returned", error |-> NoError, tgt_db |-> st.tgt_db]

----------------------------------------------------------------------------
(* The configurations the model declares.  A sheet holds up to             *)
(* Len(Titles) columns; its k-th column is titled Titles[k].  Every        *)
(* "_This." reference of a column names another title of the column's own  *)
(* sheet, declared before it, after it or not at all.                      *)

SheetNames == <<"S", "T", "U">>

Titles == <<"A", "B", "C">>

SourceRef == <<TableRef("", "People"), "Name">>

PetRef == <<TableRef("", "Pets"), "Name">>

\* names no table of src_db
MissingRef == <<TableRef("", "Missing"), "Name">>

ThisRef(name, title) == <<TableRef("_This.", name), title>>

CopyFrom(title, ref) ==
    [title |-> title, keys |-> {"copy_from"}, copy_from |-> ref,
     dependence |-> <<>>, script |-> ""]

Dependence(title, refs) ==
    [title |-> title, keys |-> {"dependence"}, copy_from |-> <<>>,
     dependence |-> refs, script |-> GreetScript]

ColumnConfs(name, title) ==
    LET this == {ThisRef(name, t) : t \in Range(Titles) \ {title}}
    IN {CopyFrom(title, ref) : ref \in {SourceRef, PetRef, MissingRef} \cup this}
       \cup {Dependence(title, <<r>>) : r \in this}
       \cup {Dependence(title, <<p[1], p[2]>>) :
                 p \in {q \in this \X (this \cup {MissingRef}) : q[1] # q[2]}}

TotalCols(sheets) ==
    LET sum[i \in 0..Len(sheets)] ==
            IF i = 0 THEN 0 ELSE sum[i - 1] + Len(sheets[i].columns)
    IN sum[Len(sheets)]

----------------------------------------------------------------------------
(* Spec: execute_migration as a state machine.  The sheets and columns of  *)
(* the configuration are drawn when the loops of lines 277 and 284 reach   *)
(* them; config records what has been read.                                *)

Run == [tgt_db |-> tgt_db, sus_list |-> sus_list, exc |-> "", log |-> log]

\* ghost: one step of execute_migration
Event(step, name, title) == [step |-> step, name |-> name, title |-> title]

\* no object of one class is under test
UnitIdle ==
    /\ column = PlaceHolderColumn
    /\ table = NewTable("")
    /\ call = <<>>
    /\ outcome = <<>>
    /\ rows = <<>>
    /\ calls = 0

SLIdle ==
    /\ sl = NewSuspendedList(RecordFunction)
    /\ released = <<>>
    /\ notified = <<>>
    /\ sl_exc = ""

Init ==
    /\ pc = "sheets"
    /\ config = <<>>
    /\ tgt_db = NewDatabase
    /\ sus_list = UnboundSuspendedList
    /\ new_table = 0
    /\ error = NoError
    /\ log = <<>>
    /\ ended = <<>>
    /\ trace = <<>>
    /\ SLIdle
    /\ UnitIdle

\* line 277 takes the next sheet; lines 278-282
AddTable ==
    /\ pc = "sheets"
    /\ Len(config) < MaxSheets
    /\ Len(config) < Len(SheetNames)
    /\ LET name == SheetNames[Len(config) + 1]
           st == SheetStart(Run, name)
       IN /\ config' = Append(config, [name |-> name, columns |-> <<>>])
          /\ tgt_db' = st.tgt_db
          /\ sus_list' = st.sus_list
          /\ new_table' = Len(st.tgt_db.tables)
    /\ pc' = "columns"
    /\ trace' = Append(trace, Event("sheet", SheetNames[Len(config) + 1], ""))
    /\ UNCHANGED <<error, log, ended, slVars, unitVars>>

\* the run goes on from st, or ends with the exception that left the step
Continue(st) ==
    /\ tgt_db' = st.tgt_db
    /\ sus_list' = st.sus_list
    /\ log' = st.log
    /\ pc' = IF st.exc # "" THEN "raised" ELSE "columns"
    /\ error' = IF st.exc # "" THEN [type |-> st.exc, lines |-> <<>>] ELSE error

\* line 284 takes the next column of the sheet; lines 286-302
ProcessColumn(cconf) ==
    /\ pc = "columns"
    /\ config' = [config EXCEPT ![Len(config)].columns = Append(@, cconf)]
    /\ Continue(ColumnStep(Run, config[Len(config)].name, new_table, cconf))
    /\ trace' = Append(trace, Event("column", config[Len(config)].name, cconf.title))
    /\ UNCHANGED <<new_table, ended, slVars, unitVars>>

\* the loop of line 284 finds the sheet's columns exhausted
EndColumns ==
    /\ pc = "columns"
    /\ pc' = "sheets"
    /\ ended' = Append(ended, sus_list)
    /\ UNCHANGED <<config, tgt_db, sus_list, new_table, error, log, trace, slVars, unitVars>>

\* the loop of line 277 finds the sheets exhausted; lines 304-326 (the
\* configurations of this model declare no post hook)
Finish ==
    /\ pc = "sheets"
    /\ pc' = IF DependencyErrorRaised(Run) THEN "raised" ELSE "returned"
    /\ error' = IF DependencyErrorRaised(Run)
                THEN [type |-> "DependencyError",
                      lines |-> ExceptionLines(sus_list, tgt_db.tables[new_table].name)]
                ELSE error
    /\ trace' = IF DependencyErrorRaised(Run) THEN trace
                 ELSE Append(trace, Event("return", "", ""))
    /\ UNCHANGED <<config, tgt_db, sus_list, new_table, log, ended, slVars, unitVars>>

NextColumn ==
    /\ pc = "columns"
    /\ TotalCols(config) < MaxTotalCols
    /\ Len(config[Len(config)].columns) < Len(Titles)
    /\ \E cconf \in ColumnConfs(config[Len(config)].name,
                                Titles[Len(config[Len(config)].columns) + 1]) :
           ProcessColumn(cconf)

Next == AddTable \/ NextColumn \/ EndColumns \/ Finish

Spec == Init /\ [][Next]_vars

----------------------------------------------------------------------------
(* SpecSL: one SuspendedList driven by arbitrary append and check calls.   *)
(* Its release function records the call.  The i-th append passes the      *)
(* reserved position i - 1 and a dependence spec titled Titles[i].         *)

MigIdle ==
    /\ pc = "sheets"
    /\ config = <<>>
    /\ tgt_db = NewDatabase
    /\ sus_list = UnboundSuspendedList
    /\ new_table = 0
    /\ error = NoError
    /\ log = <<>>
    /\ ended = <<>>
    /\ trace = <<>>

\* the "_This." references an append call may name
SLThisRefs == {ThisRef("S", "A"), ThisRef("S", "B")}

\* the keys a check call may notify
SLKeys == {<<"S", "A">>, <<"S", "B">>}

SeqsUpTo(S, n) == UNION {[1..k -> S] : k \in 1..n}

\* the wait_for arguments of append: up to MaxWait references, "_This."
\* ones (repeats allowed) with or without a last reference into the source,
\* or the reference into the source alone
WaitLists ==
    SeqsUpTo(SLThisRefs, MaxWait)
    \cup {Append(w, SourceRef) : w \in SeqsUpTo(SLThisRefs, MaxWait - 1)}
    \cup {<<SourceRef>>}

InitSL ==
    /\ MigIdle
    /\ SLIdle
    /\ UnitIdle

\* sus_list.append(conf, "S", wait_for, index)
Defer(wait_for) ==
    /\ Len(sl.objs) < MaxDeferred
    /\ Len(sl.objs) < Len(Titles)
    /\ LET index == Len(sl.objs)
           a == SL_append(sl, Dependence(Titles[index + 1], wait_for), "S", wait_for, index)
       IN /\ sl' = a.sl
          /\ sl_exc' = a.exc
          /\ notified' = IF a.exc = "" THEN Append(notified, {}) ELSE notified
    /\ UNCHANGED <<released, migVars, unitVars>>

\* sus_list.check(key)
Notify(key) ==
    LET c == SL_check(sl, [exc |-> "", released |-> released], key)
    IN /\ sl' = c.sl
       /\ released' = c.ctx.released
       /\ sl_exc' = c.ctx.exc
       /\ notified' = [i \in 1..Len(notified) |-> notified[i] \cup {key}]
       /\ UNCHANGED <<migVars, unitVars>>

DeferAny == \E wait_for \in WaitLists : Defer(wait_for)

NotifyAny == \E key \in SLKeys : Notify(key)

NextSL == DeferAny \/ NotifyAny

SpecSL == InitSL /\ [][NextSL]_vars

----------------------------------------------------------------------------
(* Vocabulary of the properties.                                           *)

Terminated == pc \in {"returned", "raised"}

IsPlaceHolder(c) == c.kind = "PlaceHolderColumn"

HasPlaceHolder(t) == \E i \in 1..Len(t.columns) : IsPlaceHolder(t.columns[i])

\* the titled columns of a table with their cell values
Cells(t) ==
    {[title |-> t.columns[i].title, data |-> t.columns[i].data] :
        i \in {j \in 1..Len(t.columns) : ~IsPlaceHolder(t.columns[j])}}

\* the table holds exactly real columns with the given titles
HoldsExactly(t, titles) ==
    /\ ~HasPlaceHolder(t)
    /\ Len(t.columns) = Cardinality(titles)
    /\ {t.columns[i].title : i \in 1..Len(t.columns)} = titles

\* the "_This." keys that SuspendedList.append received for object i of s
DeferredKeys(s, i) ==
    Range(ThisKeys(IF "copy_from" \in s.objs[i].conf.keys
                   THEN <<s.objs[i].conf.copy_from>>
                   ELSE s.objs[i].conf.dependence))

\* object i of s is held by some bucket of the waitlist
Registered(s, i) ==
    \E b \in 1..Len(s.waitlist) : i \in Range(s.waitlist[b].infos)

----------------------------------------------------------------------------
(* C1: forward reference and declaration order.                            *)

\* sheet S, the referring column declared first: its first column copies
\* "_This.S"."B", its second column, titled B, copies the source
ForwardOrder ==
    <<[name |-> "S",
       columns |-> <<CopyFrom("A", ThisRef("S", "B")), CopyFrom("B", SourceRef)>>]>>

\* the same two columns, the one built from the source declared first
SourceFirstOrder ==
    <<[name |-> "S",
       columns |-> <<CopyFrom("B", SourceRef), CopyFrom("A", ThisRef("S", "B"))>>]>>

\* C1: a run over a sheet whose first column copies its second column by a
\* "_This." reference, the second being built from the source, returns
\* without error a table that holds exactly the two titled columns, no
\* placeholder, with the cell values that the run over the same columns in
\* the other declaration order returns.
C1_ForwardReferenceSameOutput ==
    (Terminated /\ config = ForwardOrder) =>
        LET other == execute_migration(SourceFirstOrder)
        IN /\ pc = "returned"
           /\ other.status = "returned"
           /\ HoldsExactly(tgt_db.tables[1], {"A", "B"})
           /\ HoldsExactly(other.tgt_db.tables[1], {"A", "B"})
           /\ Cells(tgt_db.tables[1]) = Cells(other.tgt_db.tables[1])

----------------------------------------------------------------------------
(* C2, C3: SuspendedList under arbitrary append and check calls (SpecSL).  *)
(* notified[i] is the set of keys that check was called with since object  *)
(* i was appended.                                                         *)

\* C2: append registers an object under every key it still waits for, also
\* under a key that already has a bucket; so an object all of whose keys
\* have been notified has been released, and an object that is not released
\* is still held by the waitlist.
C2_DeferRegistersUnderEveryKey ==
    \A i \in 1..Len(sl.objs) :
        /\ ~sl.objs[i].released =>
              \A k \in Range(sl.objs[i].wait_for) :
                  InWaitlist(sl.waitlist, k) /\ i \in Range(Bucket(sl.waitlist, k))
        /\ DeferredKeys(sl, i) \subseteq notified[i] => sl.objs[i].released
        /\ ~sl.objs[i].released => Registered(sl, i)

\* C3: an object is released, and the release function called for it, only
\* when every key it was appended with has been notified since its append;
\* the check of one key of an object with several keys does not release it
\* while another of its keys has not been notified.
C3_ReleaseOnlyWhenAllNotified ==
    /\ \A i \in 1..Len(sl.objs) :
           sl.objs[i].released => DeferredKeys(sl, i) \subseteq notified[i]
    /\ \A j \in 1..Len(released) :
           DeferredKeys(sl, released[j].index + 1) \subseteq notified[released[j].index + 1]

\* an object appended with two different keys has been released by a call
\* of the release function
C3_MultiKeyReleased ==
    \E i \in 1..Len(sl.objs) :
        /\ Cardinality(DeferredKeys(sl, i)) = 2
        /\ sl.objs[i].released
        /\ \E j \in 1..Len(released) : released[j].index + 1 = i

----------------------------------------------------------------------------
(* C4 .. C9: the run of execute_migration (Spec).                          *)

\* the references of a column spec, as execute_migration passes them to
\* SuspendedList.append
Refs(conf) ==
    IF "copy_from" \in conf.keys THEN <<conf.copy_from>> ELSE conf.dependence

\* the SuspendedList of every sheet started so far: Lists[s] belongs to
\* the table tgt_db.tables[s]
Lists == IF pc = "columns" THEN Append(ended, sus_list) ELSE ended

\* the objects of a list that were never released
Blocked(s) == {i \in 1..Len(s.objs) : ~s.objs[i].released}

\* sheet S declaring, in this order, a column that copies "_This.S"."B", the
\* column B that copies "_This.S"."C", and the column C built from the source
ChainOrder ==
    <<[name |-> "S",
       columns |-> <<CopyFrom("A", ThisRef("S", "B")),
                     CopyFrom("B", ThisRef("S", "C")),
                     CopyFrom("C", SourceRef)>>]>>

\* C4: releases cascade.  Between two declared columns no object is left
\* unreleased that was deferred on the single key of a column which a
\* release has built; and the run over the chain of three columns, each
\* copying the next and the last built from the source, returns with all
\* three built.
C4_CascadeTransitive ==
    /\ pc = "columns" =>
          \A i, j \in 1..Len(sus_list.objs) :
              ( /\ sus_list.objs[j].released
                /\ HasColumn(tgt_db.tables[new_table], sus_list.objs[j].conf.title)
                /\ DeferredKeys(sus_list, i)
                     = {<<config[Len(config)].name, sus_list.objs[j].conf.title>>} )
              => sus_list.objs[i].released
    /\ (Terminated /\ config = ChainOrder) =>
          /\ pc = "returned"
          /\ HoldsExactly(tgt_db.tables[1], {"A", "B", "C"})

\* C5: a sheet whose list still holds something when its columns are
\* exhausted is the last sheet that execute_migration starts: no sheet is
\* started after it, the run does not return, and if it raises, it raises
\* the dependency error.
C5_DrainCheckEverySheet ==
    \A i \in 1..Len(ended) :
        something_here(ended[i]) =>
            /\ i = Len(config)
            /\ pc # "returned"
            /\ pc = "raised" => error.type = "DependencyError"

\* some column of a sheet names, by a "_This." reference to its own sheet,
\* a title that the sheet does not declare
NeverDeclared(sheets) ==
    \E s \in 1..Len(sheets) :
        \E c \in 1..Len(sheets[s].columns) :
            \E k \in Range(ThisKeys(Refs(sheets[s].columns[c]))) :
                /\ k[1] = sheets[s].name
                /\ k[2] \notin {sheets[s].columns[d].title : d \in 1..Len(sheets[s].columns)}

\* line l of the message names object i of list s
Names(l, s, i) ==
    /\ l.title = s.objs[i].conf.title
    /\ l.index = s.objs[i].index
    /\ l.wait_for = s.objs[i].wait_for

\* C6: a run that reaches the end of its sheets with a column naming a
\* never declared title raises the dependency error, and the message lists
\* the objects that were deferred and never released, each once, with
\* title, reserved position and remaining keys, and nothing else.
C6_DependencyErrorListsBlocked ==
    ( /\ NeverDeclared(config)
      /\ pc = "returned" \/ (pc = "raised" /\ error.lines # <<>>) )
    => /\ pc = "raised"
       /\ error.type = "DependencyError"
       /\ Len(error.lines) = Cardinality(Blocked(sus_list))
       /\ \A i \in Blocked(sus_list) :
              \E l \in 1..Len(error.lines) : Names(error.lines[l], sus_list, i)
       /\ \A l \in 1..Len(error.lines) :
              \E i \in Blocked(sus_list) : Names(error.lines[l], sus_list, i)

\* C7: when execute_migration returns, the list of every sheet was empty at
\* the end of the sheet, no table holds a placeholder, and every declared
\* column of every sheet is a column of its table.
C7_ReturnedDatasetComplete ==
    pc = "returned" =>
        /\ \A s \in 1..Len(ended) : ~something_here(ended[s])
        /\ \A s \in 1..Len(tgt_db.tables) : ~HasPlaceHolder(tgt_db.tables[s])
        /\ \A s \in 1..Len(config) :
               \A c \in 1..Len(config[s].columns) :
                   HasColumn(tgt_db.tables[s], config[s].columns[c].title)

\* C8: a released column whose construction succeeded stands at the position
\* reserved for it, position 0 included, in place of the placeholder, so
\* that its table holds no more columns than its sheet declares; and when
\* execute_migration returns, the i-th column of every table is the real
\* column titled as the i-th declared column of its sheet.
C8_ReleasedAtReservedPosition ==
    /\ \A a \in 1..Len(log) :
           (log[a].pos # NoPos /\ log[a].ret) =>
               LET t == tgt_db.tables[log[a].table]
               IN /\ Len(t.columns) <= Len(config[log[a].table].columns)
                  /\ log[a].pos + 1 <= Len(t.columns)
                  /\ t.columns[log[a].pos + 1].title = log[a].title
    /\ pc = "returned" =>
           \A s \in 1..Len(config) :
               /\ Len(tgt_db.tables[s].columns) = Len(config[s].columns)
               /\ \A i \in 1..Len(config[s].columns) :
                      /\ ~IsPlaceHolder(tgt_db.tables[s].columns[i])
                      /\ tgt_db.tables[s].columns[i].title = config[s].columns[i].title

\* the column spec holds a reference into the source that names no table
NamesMissing(conf) == MissingRef \in Range(Refs(conf))

\* C9: a run whose configuration holds a reference, not a "_This." one, to
\* a table that does not exist ends by raising, also when the column spec
\* holds "_This." references too: it does not return, and no object is
\* marked released whose column was not built.
C9_MissingReferenceAborts ==
    /\ Terminated =>
           \A s \in 1..Len(config) :
               \A c \in 1..Len(config[s].columns) :
                   NamesMissing(config[s].columns[c]) => pc = "raised"
    /\ \A s \in 1..Len(Lists) :
           \A i \in 1..Len(Lists[s].objs) :
               Lists[s].objs[i].released =>
                   HasColumn(tgt_db.tables[s], Lists[s].objs[i].conf.title)

----------------------------------------------------------------------------
(* C10: a dependence column on built "_This." columns.                     *)

\* the configuration of the end-to-end scenario: sheet Out, the column Name
\* copied from People.Name, then the column Greeting depending on it
PeopleGreeting ==
    <<[name |-> "Out",
       columns |-> <<CopyFrom("Name", SourceRef),
                     Dependence("Greeting", <<ThisRef("Out", "Name")>>)>>]>>

\* the same scenario with the names of the configurations of Spec
GreetingOrder ==
    <<[name |-> "S",
       columns |-> <<CopyFrom("A", SourceRef),
                     Dependence("B", <<ThisRef("S", "A")>>)>>]>>

\* what the script leaves in a buffer as long as data
Greeted(data) == [i \in 1..Len(data) |-> "Hi " \o data[i]]

\* every reference of the dependence spec is a "_This." one that resolves
AllBuiltThis(tgt, conf) ==
    \A r \in Range(conf.dependence) :
        MatchThis(r[1]) /\ dereference_column(src_db, ex_src_db, sub_db, tgt, r[1], r[2]).exc = ""

\* a step that processes a dependence column whose references are all
\* "_This." ones to built columns does not defer it, and adds to the end of
\* the table the column got by the script from the first dependency, of
\* the same length
ImmediateDependence ==
    (pc = "columns" /\ Len(config') = Len(config) /\ config' # config) =>
        LET cconf == config'[Len(config)].columns[Len(config'[Len(config)].columns)]
            t == tgt_db.tables[new_table]
            after == tgt_db'.tables[new_table]
        IN ("dependence" \in cconf.keys /\ AllBuiltThis(tgt_db, cconf)) =>
               LET first == dereference_column(src_db, ex_src_db, sub_db, tgt_db,
                                               cconf.dependence[1][1],
                                               cconf.dependence[1][2]).col
               IN /\ pc' = "columns"
                  /\ Len(sus_list'.objs) = Len(sus_list.objs)
                  /\ \E a \in 1..Len(log') :
                         /\ a > Len(log)
                         /\ log'[a] = [table |-> new_table, title |-> cconf.title,
                                       pos |-> NoPos, ret |-> TRUE, exc |-> ""]
                  /\ Len(after.columns) > Len(t.columns)
                  /\ after.columns[Len(t.columns) + 1]
                       = NewColumn(cconf.title, Greeted(first.data))
                  /\ Len(after.columns[Len(t.columns) + 1].data) = Len(first.data)

\* C10: the end-to-end scenario (People.Name = Al, Bo; sheet Out with Name
\* copied from People.Name and Greeting depending on "_This.Out".Name)
\* returns the table Out with Name = Al, Bo and Greeting = Hi Al, Hi Bo;
\* and every dependence column on built "_This." columns is built at once,
\* without deferral, with a buffer as long as its first dependency.
C10_DependenceOnBuiltColumn ==
    /\ [](/\ LET run == execute_migration(PeopleGreeting)
             IN /\ run.status = "returned"
                /\ run.tgt_db.tables[1].name = "Out"
                /\ run.tgt_db.tables[1].columns
                     = <<NewColumn("Name", <<"Al", "Bo">>),
                         NewColumn("Greeting", <<"Hi Al", "Hi Bo">>)>>
          /\ (Terminated /\ config = GreetingOrder) =>
                 /\ pc = "returned"
                 /\ tgt_db.tables[1].columns
                      = <<NewColumn("A", <<"Al", "Bo">>),
                          NewColumn("B", <<"Hi Al", "Hi Bo">>)>>)
    /\ [][ImmediateDependence]_vars

\* the run of the scenario has returned, the depending column built at its
\* first attempt from the two cells of the column it depends on
C10_GreetingBuilt ==
    /\ pc = "returned"
    /\ config = GreetingOrder
    /\ get_column(tgt_db.tables[1], "B").data = <<"Hi Al", "Hi Bo">>
    /\ log = <<[table |-> 1, title |-> "A", pos |-> NoPos, ret |-> TRUE, exc |-> ""],
               [table |-> 1, title |-> "B", pos |-> NoPos, ret |-> TRUE, exc |-> ""]>>

----------------------------------------------------------------------------
(* One IndexColumn under arbitrary del_row calls.  rows is the reference:  *)
(* the first Window elements of start, start + 1, ... from which the       *)
(* deleted positions are removed one after another.                        *)

MaxRow == 3
MaxDelRows == 3
Window == MaxRow + MaxDelRows + 2
IndexStarts == {0, 1, 5}

InitIndex ==
    /\ MigIdle
    /\ SLIdle
    /\ \E s \in IndexStarts :
          /\ column = IndexColumn("I", s)
          /\ rows = [i \in 1..Window |-> s + i - 1]
    /\ table = NewTable("")
    /\ call = <<>>
    /\ outcome = <<>>
    /\ calls = 0

DelRow(k) ==
    /\ calls < MaxDelRows
    /\ calls' = calls + 1
    /\ column' = del_row(column, k)
    /\ rows' = RemoveAt(rows, k + 1)
    /\ call' = [op |-> "del_row", index |-> k]
    /\ outcome' = NULL
    /\ UNCHANGED <<migVars, slVars, table>>

DelAnyRow == \E k \in 0..MaxRow : DelRow(k)

\* the list s with its elements at the 0-based positions i0 and i1 exchanged
Exchanged(s, i0, i1) == [s EXCEPT ![i0 + 1] = s[i1 + 1], ![i1 + 1] = s[i0 + 1]]

\* column.swap_row(i0, i1); the reference follows a swap that completed
SwapRow(i0, i1) ==
    /\ calls < MaxDelRows
    /\ calls' = calls + 1
    /\ column' = swap_row(column, i0, i1).col
    /\ rows' = IF swap_row(column, i0, i1).exc = "" THEN Exchanged(rows, i0, i1) ELSE rows
    /\ call' = [op |-> "swap_row", i0 |-> i0, i1 |-> i1]
    /\ outcome' = swap_row(column, i0, i1).exc
    /\ UNCHANGED <<migVars, slVars, table>>

SwapAnyRows == \E i0, i1 \in 0..MaxRow : SwapRow(i0, i1)

NextIndex == DelAnyRow

SpecIndex == InitIndex /\ [][NextIndex]_vars

\* one IndexColumn under arbitrary del_row and swap_row calls
NextIndexSwap == DelAnyRow \/ SwapAnyRows

SpecIndexSwap == InitIndex /\ [][NextIndexSwap]_vars

\* get_data agrees with the reference on the window and continues it beyond
ReadsReference ==
    /\ \A i \in 0..(Len(rows) - 1) : get_data(column, i) = rows[i + 1]
    /\ \A i \in Len(rows)..(Len(rows) + MaxRow) :
          get_data(column, i) = rows[Len(rows)] + (i - Len(rows)) + 1

\* no del_row yet: get_data(i) = start_from + i
ReadsFresh ==
    Len(rows) = Window =>
        \A i \in 0..(Window + MaxRow) : get_data(column, i) = column.start_from + i

\* a del_row(k) step: rows before k keep their value, row i >= k takes the
\* value row i + 1 had
ShiftsDown ==
    Len(rows') = Len(rows) - 1 =>
        \A i \in 0..Window :
            get_data(column', i) = IF i < call'.index
                                   THEN get_data(column, i)
                                   ELSE get_data(column, i + 1)

\* C11: an index column with start s reads s + i before any mutation; a
\* del_row(k) leaves get_data(i) for i < k and gives get_data(i) for i >= k
\* the value get_data(i + 1) had; after any sequence of del_row calls
\* get_data(i) is the i-th element of s, s + 1, ... with the deleted
\* positions removed one after another.
C11_IndexColumnDelRow ==
    /\ [](column.kind = "IndexColumn" => ReadsReference /\ ReadsFresh)
    /\ [][column.kind = "IndexColumn" => ShiftsDown]_vars

\* start 0, del_row(2) on a lazy row, then del_row(0) on a materialized one:
\* the column holds <<1>> and reads 1, 3, 4, ...
C11_LazyThenMaterialized ==
    /\ column.kind = "IndexColumn"
    /\ Len(rows) = Window - 2
    /\ call = [op |-> "del_row", index |-> 0]
    /\ column.data = <<1>>
    /\ get_data(column, 0) = 1
    /\ get_data(column, 1) = 3

----------------------------------------------------------------------------
(* One Table under arbitrary calls of its operations.                      *)

\* columns a table holds
MaxColumns == 2
\* greatest row index passed to a Table operation
MaxTableRow == 2
\* calls made on the table
MaxCalls == 3

\* the columns that append_column and insert_column are asked to build: two
\* plain columns of the same title, an empty, a filled and an index column
TableColumns ==
    { NewColumn("A", <<"x", "y">>), NewColumn("A", <<"p">>),
      EmptyColumn("E"), FilledColumn("F", "f"), IndexColumn("I", 1) }

InitTable ==
    /\ MigIdle
    /\ SLIdle
    /\ column = PlaceHolderColumn
    /\ table = NewTable("T")
    /\ call = <<>>
    /\ outcome = <<>>
    /\ rows = <<>>
    /\ calls = 0

\* what a call leaves behind; r is [exc, t]
Called(op, passed, r) ==
    /\ calls' = calls + 1
    /\ call' = [op |-> op, args |-> passed]
    /\ table' = r.t
    /\ outcome' = r.exc
    /\ UNCHANGED <<migVars, slVars, column, rows>>

AppendColumn ==
    \E c \in TableColumns :
        /\ calls < MaxCalls
        /\ Len(table.columns) < MaxColumns
        /\ Called("append_column", <<c.title>>, [exc |-> "", t |-> append_column(table, c)])

InsertColumn ==
    \E index \in 0..(MaxColumns - 1), c \in TableColumns :
        /\ calls < MaxCalls
        /\ Called("insert_column", <<index, c.title>>,
                  [exc |-> "", t |-> insert_column(table, index, c)])

SuspendedColumn ==
    /\ calls < MaxCalls
    /\ Len(table.columns) < MaxColumns
    /\ Called("suspended_column", <<>>, [exc |-> "", t |-> suspended_column(table)])

TableDelRow ==
    \E index \in 0..MaxTableRow :
        /\ calls < MaxCalls
        /\ Called("del_row", <<index>>, [exc |-> "", t |-> Table_del_row(table, index)])

TableSwapRow ==
    \E i0, i1 \in 0..MaxTableRow :
        /\ calls < MaxCalls
        /\ Called("swap_row", <<i0, i1>>, Table_swap_row(table, i0, i1))

TableMoveToEnd ==
    \E index \in 0..MaxTableRow :
        /\ calls < MaxCalls
        /\ Called("move_to_end", <<index>>, move_to_end(table, index))

NextTable ==
    \/ AppendColumn
    \/ InsertColumn
    \/ SuspendedColumn
    \/ TableDelRow
    \/ TableSwapRow
    \/ TableMoveToEnd

SpecTable == InitTable /\ [][NextTable]_vars

\* every column of t reads at every row what it reads in u
SameReads(t, u) ==
    /\ Len(t.columns) = Len(u.columns)
    /\ \A n \in 1..Len(t.columns), r \in 0..(MaxTableRow + 1) :
          get_data(t.columns[n], r) = get_data(u.columns[n], r)

\* once is the result of swap_row(i0, i1) on t: it did not raise, and the
\* same call on its table does not raise and gives back what t reads
SwapsBack(t, once, i0, i1) ==
    /\ once.exc = ""
    /\ Table_swap_row(once.t, i0, i1).exc = ""
    /\ SameReads(Table_swap_row(once.t, i0, i1).t, t)

\* C12: on every table and for all existing rows i, j, swap_row(i, i)
\* changes nothing, swap_row(i, j) applied twice leaves get_data(r) of every
\* column as it was, and neither call raises.
C12_SwapRowTwiceRestores ==
    \A i, j \in 0..(table.max_row_num - 1) :
        /\ Table_swap_row(table, i, i) = [exc |-> "", t |-> table]
        /\ SwapsBack(table, Table_swap_row(table, i, j), i, j)


\* the count() values of the columns of t that report a concrete length
ConcreteCounts(t) ==
    { Count(t.columns[n]) : n \in { m \in 1..Len(t.columns) : Count(t.columns[m]) # -1 } }

\* the greatest of them, 0 when there is none
MaxConcreteCount(t) ==
    IF ConcreteCounts(t) = {} THEN 0
    ELSE CHOOSE m \in ConcreteCounts(t) : \A k \in ConcreteCounts(t) : k <= m

\* C13: after any sequence of Table operations the row count _max_row_num
\* is the greatest count() over the columns that report a concrete length
\* (0 when there is none) and is never negative.
C13_RowCountIsMaxConcreteCount ==
    /\ table.max_row_num >= 0
    /\ table.max_row_num = MaxConcreteCount(table)

\* no two columns built by append_column or insert_column share a title
UniqueTitles(t) ==
    \A m, n \in 1..Len(t.columns) :
        (m # n /\ ~IsPlaceHolder(t.columns[m]) /\ ~IsPlaceHolder(t.columns[n]))
            => t.columns[m].title # t.columns[n].title

\* the titles of the columns of t
TitlesOf(t) == { t.columns[n].title : n \in 1..Len(t.columns) } \ {""}

\* a step that calls append_column or insert_column with a title the table
\* holds: the call raises and the table is as before
DuplicateRejected ==
    (/\ calls' = calls + 1
     /\ call'.op \in {"append_column", "insert_column"}
     /\ call'.args[Len(call'.args)] \in TitlesOf(table))
        => (outcome' # "" /\ table' = table)

\* C14: append_column or insert_column with a title that the table already
\* holds is rejected with an error and leaves the table unchanged, so no
\* two columns of a table share a title and lookup by title returns the
\* only column of that title.
C14_TitlesUnique ==
    /\ [](UniqueTitles(table) /\
          \A n \in 1..Len(table.columns) :
              ~IsPlaceHolder(table.columns[n])
                  => get_column(table, table.columns[n].title) = table.columns[n])
    /\ [][DuplicateRejected]_vars

----------------------------------------------------------------------------
(* A column built from the cells of a source column under a mapping dict,  *)
(* and mapped again.  rows holds the cells of the source column, call the  *)
(* mappings applied so far.                                                *)

\* cells of the source column
MaxCells == 3
\* mappings applied to one column
MaxMappings == 2

CellValues == {"a", "b", NULL}

Mapping1(k, v) == DictSet(EmptyDict, k, v)
Mapping2(k1, v1, k2, v2) == DictSet(Mapping1(k1, v1), k2, v2)

Mappings ==
    { EmptyDict, Mapping1("_Other", "_Origin"), Mapping1("a", "_Origin"),
      Mapping2("a", "_Origin", "b", "_Origin"),
      Mapping1("a", "X"), Mapping2("a", "X", "_Other", "_Origin"),
      Mapping2("a", "_Origin", "_Other", "Y"), Mapping2("a", "X", "b", "_Origin"),
      Mapping2("a", "b", "b", "a") }

InitMapping ==
    /\ MigIdle
    /\ SLIdle
    /\ \E data \in {<<>>} \cup SeqsUpTo(CellValues, MaxCells) :
          /\ column = NewColumn("S", data)
          /\ rows = data
    /\ table = NewTable("")
    /\ call = <<>>
    /\ outcome = ""
    /\ calls = 0

\* Column(title, None, data = column, mapping = mapping)
Construct ==
    \E mapping \in Mappings :
        /\ calls = 0
        /\ calls' = 1
        /\ call' = <<mapping>>
        /\ column' = Column_init("T", column.data, mapping).col
        /\ outcome' = Column_init("T", column.data, mapping).exc
        /\ UNCHANGED <<migVars, slVars, table, rows>>

\* column._mapping_dict(mapping) on the column built
Remap ==
    \E mapping \in Mappings :
        /\ calls >= 1
        /\ calls < MaxMappings
        /\ outcome = ""
        /\ calls' = calls + 1
        /\ call' = Append(call, mapping)
        /\ column' = [column EXCEPT !.data = mapping_dict(column.data, mapping).data]
        /\ outcome' = mapping_dict(column.data, mapping).exc
        /\ UNCHANGED <<migVars, slVars, table, rows>>

NextMapping == Construct \/ Remap

SpecMapping == InitMapping /\ [][NextMapping]_vars

\* the value the cell v takes under the mapping, where the mapping says one
Substituted(mapping, v) ==
    IF v \in DOMAIN mapping
    THEN IF mapping[v] # "_Origin" THEN mapping[v] ELSE v
    ELSE IF mapping["_Other"] # "_Origin" THEN mapping["_Other"] ELSE v

\* the mapping says what becomes of the cell v
Covers(mapping, v) == v \in DOMAIN mapping \/ "_Other" \in DOMAIN mapping

\* a step that applies mapping to the cells before: it returns, the length
\* is kept, a cell the mapping covers takes the value the mapping gives it,
\* and cells of equal value end equal
CellsSubstituted(before, mapping, after, exc) ==
    /\ exc = ""
    /\ Len(after) = Len(before)
    /\ \A i \in 1..Len(before) :
          Covers(mapping, before[i]) => after[i] = Substituted(mapping, before[i])
    /\ \A i, j \in 1..Len(before) : before[i] = before[j] => after[i] = after[j]

\* C15: substitution by a mapping table treats every cell independently: a
\* cell v becomes mapping[v] when v is a key and mapping[v] is not _Origin
\* and stays v when it is; a cell that is no key becomes mapping[_Other]
\* unless that is _Origin; the length of the column is unchanged.
C15_CellsMappedIndependently ==
    [][calls' = calls + 1 =>
         CellsSubstituted(column.data, call'[Len(call')], column'.data, outcome')]_vars

\* C16: a mapping whose values are all _Origin (the default, the empty
\* mapping) leaves every cell of every column unchanged, also when it is
\* applied again.
C16_AllOriginIsNoOp ==
    [][(calls' = calls + 1 /\ \A k \in DOMAIN call'[Len(call')] :
                                 call'[Len(call')][k] = "_Origin")
          => (outcome' = "" /\ column'.data = column.data)]_vars

\* the empty mapping applied twice to a column of three cells
C16_EmptyMappingTwice ==
    /\ calls = 2
    /\ call = <<EmptyDict, EmptyDict>>
    /\ outcome = ""
    /\ Len(rows) = 3
    /\ column.data = rows
    /\ column.title = "T"

----------------------------------------------------------------------------
(* database.py: Table.get_subtable; migration_toolkit.py: get_sub_db and   *)
(* the hooks of execute_migration.                                         *)

\* data[a:b] for 0 <= a and 0 <= b
Slice(data, a, b) == SubSeq(data, a + 1, IF b < Len(data) THEN b ELSE Len(data))

\* lines 443-452 for the column at 0-based position c: the title and the
\* data of the column of the subtable
SubColumn(t, c, r0, r1) ==
    IF r0 = 0
    THEN NewColumn(t.columns[c + 1].title, Slice(t.columns[c + 1].data, 0, r1 - 1))
    ELSE NewColumn(t.columns[c + 1].data[r0], Slice(t.columns[c + 1].data, r0, r1 - 1))

\* the loops of lines 444 and 449 from column c on; st is the subtable
RECURSIVE SubColumns(_, _, _, _, _, _)
SubColumns(t, st, c, c1, r0, r1) ==
    IF c >= c1 THEN [exc |-> "", t |-> st]
    ELSE IF c >= Len(t.columns) \/ (r0 > 0 /\ r0 - 1 >= Len(t.columns[c + 1].data))
    THEN [exc |-> "IndexError", t |-> st]
    ELSE SubColumns(t, append_column(st, SubColumn(t, c, r0, r1)), c + 1, c1, r0, r1)

\* Table.get_subtable(r0, c0, r1, c1), -1 for an end that is left open; no
\* row of the source tables of this model is empty, so that
\* _truncate_below_empty_row, line 454, removes nothing
get_subtable(t, r0, c0, r1, c1) ==
    SubColumns(t, NewTable("Subtable"), c0,
               IF c1 = -1 THEN Len(t.columns) ELSE c1,
               r0, IF r1 = -1 THEN t.max_row_num + 1 ELSE r1)

\* one entry of config["process"]["subsheets"]: [table, [[r0, r1], [c0, c1]]]
Subsheet(name, r0, r1, c0, c1) == <<name, << <<r0, r1>>, <<c0, c1>> >> >>

\* the loop of get_sub_db, lines 224-228, from entry i on
RECURSIVE SubTables(_, _, _, _)
SubTables(subsheet_conf, src, i, sub) ==
    IF i > Len(subsheet_conf) THEN [exc |-> "", db |-> sub]
    ELSE IF ~has_table(src, subsheet_conf[i][1])
    THEN [exc |-> "KeyError", db |-> sub]
    ELSE IF get_subtable(get_table(src, subsheet_conf[i][1]),
                         subsheet_conf[i][2][1][1], subsheet_conf[i][2][2][1],
                         subsheet_conf[i][2][1][2], subsheet_conf[i][2][2][2]).exc # ""
    THEN [exc |-> "IndexError", db |-> sub]
    ELSE SubTables(subsheet_conf, src, i + 1,
                   [sub EXCEPT !.tables =
                       Append(@, get_subtable(get_table(src, subsheet_conf[i][1]),
                                              subsheet_conf[i][2][1][1],
                                              subsheet_conf[i][2][2][1],
                                              subsheet_conf[i][2][1][2],
                                              subsheet_conf[i][2][2][2]).t)])

\* the key "subsheets", "pre" or "post" is not in config["process"]
Absent == "<absent>"

\* get_sub_db: [exc, db]
get_sub_db(subsheets, src) ==
    IF subsheets = Absent THEN [exc |-> "", db |-> NewDatabase]
    ELSE SubTables(subsheets, src, 1, NewDatabase)

\* the hook scripts of the configurations of this model
PassHook == "pass"
RaiseHook == "raise Exception('hook')"
AddTableHook == "tgt_db.add_table('H')"
RebindHook == "tgt_db = Database()"
HookScripts == {PassHook, RaiseHook, AddTableHook, RebindHook}

\* exec(pjshon.parse(script), context) and the reading back of
\* context["tgt_db"], lines 268-272 and 320-324: [exc, tgt_db]
RunHook(script, tgt) ==
    IF script = RaiseHook THEN [exc |-> "Exception", tgt_db |-> tgt]
    ELSE IF script = AddTableHook THEN [exc |-> "", tgt_db |-> add_table(tgt, "H")]
    ELSE IF script = RebindHook THEN [exc |-> "", tgt_db |-> NewDatabase]
    ELSE [exc |-> "", tgt_db |-> tgt]

----------------------------------------------------------------------------
(* execute_migration on configurations with a "process" entry.  call holds *)
(* config["process"]: its subsheets, its pre hook and its post hook.  The  *)
(* column specs of these configurations refer to the source and to         *)
(* "_This." tables only.                                                   *)

SubsheetConfs ==
    { Absent, <<Subsheet("People", 0, -1, 0, -1)>>,
      <<Subsheet("People", 1, 3, 0, 1), Subsheet("Pets", 0, 2, 0, 1)>>,
      <<Subsheet("Missing", 0, -1, 0, -1)>> }

\* line 250: the target is created; sub_db, line 253, is not yet derived
InitHooks ==
    /\ pc = "start"
    /\ config = <<>>
    /\ tgt_db = NewDatabase
    /\ sus_list = UnboundSuspendedList
    /\ new_table = 0
    /\ error = NoError
    /\ log = <<>>
    /\ ended = <<>>
    /\ trace = <<>>
    /\ SLIdle
    /\ column = PlaceHolderColumn
    /\ table = NewTable("")
    /\ \E s \in SubsheetConfs, pre, post \in HookScripts \cup {Absent} :
          call = [subsheets |-> s, pre |-> pre, post |-> post]
    /\ outcome = <<>>
    /\ rows = <<>>
    /\ calls = 0

\* a step of the run that may raise: the target it leaves, where the run
\* goes on, the step as the trace records it
HookStep(r, next, step) ==
    /\ tgt_db' = r.tgt_db
    /\ pc' = IF r.exc # "" THEN "raised" ELSE next
    /\ error' = IF r.exc # "" THEN [type |-> r.exc, lines |-> <<>>] ELSE error
    /\ trace' = Append(trace, step)

\* line 253
DeriveSubTables ==
    /\ pc = "start"
    /\ HookStep([exc |-> get_sub_db(call.subsheets, src_db).exc, tgt_db |-> tgt_db],
                "pre", Event("subtables", "", ""))
    /\ UNCHANGED <<config, sus_list, new_table, log, ended, slVars, unitVars>>

\* lines 267-274 with a pre hook
PreHook ==
    /\ pc = "pre"
    /\ call.pre # Absent
    /\ HookStep(RunHook(call.pre, tgt_db), "sheets", Event("pre", call.pre, ""))
    /\ UNCHANGED <<config, sus_list, new_table, log, ended, slVars, unitVars>>

\* lines 267-274 without one
NoPreHook ==
    /\ pc = "pre"
    /\ call.pre = Absent
    /\ pc' = "sheets"
    /\ UNCHANGED <<config, tgt_db, sus_list, new_table, error, log, ended, trace,
                   slVars, unitVars>>

\* the column specs of these configurations: a copy from the source, from
\* a table that does not exist, from another column of the sheet
HookColumnConfs(name, title) ==
    {CopyFrom(title, ref) :
        ref \in {SourceRef, MissingRef} \cup {ThisRef(name, t) : t \in Range(Titles) \ {title}}}

HookColumn ==
    /\ pc = "columns"
    /\ TotalCols(config) < MaxTotalCols
    /\ Len(config[Len(config)].columns) < Len(Titles)
    /\ \E cconf \in HookColumnConfs(config[Len(config)].name,
                                    Titles[Len(config[Len(config)].columns) + 1]) :
           ProcessColumn(cconf)

\* lines 304-305 raise
DrainCheckRaises ==
    /\ pc = "sheets"
    /\ DependencyErrorRaised(Run)
    /\ pc' = "raised"
    /\ error' = [type |-> "DependencyError",
                 lines |-> ExceptionLines(sus_list, tgt_db.tables[new_table].name)]
    /\ UNCHANGED <<config, tgt_db, sus_list, new_table, log, ended, trace, slVars, unitVars>>

\* lines 304-326 with a post hook: the hook runs, its binding of tgt_db is
\* returned
PostHook ==
    /\ pc = "sheets"
    /\ ~DependencyErrorRaised(Run)
    /\ call.post # Absent
    /\ HookStep(RunHook(call.post, tgt_db), "returned", Event("post", call.post, ""))
    /\ UNCHANGED <<config, sus_list, new_table, log, ended, slVars, unitVars>>

\* lines 304-326 without one
NoPostHook ==
    /\ pc = "sheets"
    /\ ~DependencyErrorRaised(Run)
    /\ call.post = Absent
    /\ pc' = "returned"
    /\ UNCHANGED <<config, tgt_db, sus_list, new_table, error, log, ended, trace,
                   slVars, unitVars>>

NextHooks ==
    \/ DeriveSubTables
    \/ PreHook
    \/ NoPreHook
    \/ AddTable
    \/ HookColumn
    \/ EndColumns
    \/ DrainCheckRaises
    \/ PostHook
    \/ NoPostHook

SpecHooks == InitHooks /\ [][NextHooks]_vars


\* the place of a step in the order of execute_migration
StepRank(e) ==
    IF e.step = "subtables" THEN 0
    ELSE IF e.step = "pre" THEN 1
    ELSE IF e.step \in {"sheet", "column"} THEN 2
    ELSE IF e.step = "post" THEN 3
    ELSE 4

IsSheetStep(e) == e.step = "sheet"

\* the titles of the columns attempted for the sheet of the given name, in
\* the order of the attempts
AttemptedTitles(name) ==
    LET OfSheet(e) == e.step = "column" /\ e.name = name
        steps == SelectSeq(trace, OfSheet)
    IN [i \in 1..Len(steps) |-> steps[i].title]

\* the steps taken so far are in the order sub-table derivation, pre hook,
\* sheets as declared with their columns as declared, post hook; the pre
\* hook finds the target empty; what is returned is the binding of tgt_db
\* that the post hook left
StepsInOrder ==
    /\ \A i, j \in 1..Len(trace) : i < j => StepRank(trace[i]) <= StepRank(trace[j])
    /\ pc \in {"start", "pre"} => tgt_db = NewDatabase
    /\ pc # "start" => (Len(trace) >= 1 /\ trace[1].step = "subtables")
    /\ (pc \in {"sheets", "columns", "returned"} /\ call.pre # Absent)
          => (Len(trace) >= 2 /\ trace[2] = Event("pre", call.pre, ""))
    /\ LET sheets == SelectSeq(trace, IsSheetStep)
       IN /\ Len(sheets) = Len(config)
          /\ \A s \in 1..Len(config) :
                /\ sheets[s].name = config[s].name
                /\ AttemptedTitles(config[s].name)
                     = [c \in 1..Len(config[s].columns) |-> config[s].columns[c].title]
    /\ (pc = "returned" /\ call.post # Absent)
          => /\ trace[Len(trace)] = Event("post", call.post, "")
             /\ call.post = RebindHook => tgt_db = NewDatabase
             /\ call.post = AddTableHook => tgt_db.tables[Len(tgt_db.tables)].name = "H"

\* an error that the run has to end with: the list of a sheet held
\* something when the columns of the sheet were exhausted, or a column spec
\* refers, not by a "_This." reference, to a table that does not exist
FatalErrorOccurred ==
    \/ \E s \in 1..Len(ended) : something_here(ended[s])
    \/ \E s \in 1..Len(config) :
          \E c \in 1..Len(config[s].columns) : NamesMissing(config[s].columns[c])

PostHookRan == \E i \in 1..Len(trace) : trace[i].step = "post"

\* C17: execute_migration derives the sub-tables, then runs the pre hook on
\* the still empty target, then takes the sheets in declared order and the
\* columns of each sheet in declared order, then runs the post hook, then
\* returns the binding of the target that the hooks left; the post hook
\* runs only when no fatal error occurred, and on a fatal error no dataset
\* is returned.
C17_StepsInFixedOrder ==
    /\ StepsInOrder
    /\ FatalErrorOccurred => (~PostHookRan /\ pc # "returned")

----------------------------------------------------------------------------
(* process_cconf called once on a target table, for column specs that      *)
(* carry any set of the construction keys.  tgt_db is the target, its      *)
(* table S the table t of the call; call is <<col_conf, pos>>, outcome the *)
(* returned bool and the exception.                                        *)

\* table S as execute_migration can have left it: empty, with the column A
\* built, with a placeholder before or after A
CconfTargets ==
    LET db == add_table(NewDatabase, "S")
        A == NewColumn("A", <<"Al", "Bo">>)
    IN { db,
         [db EXCEPT !.tables[1] = append_column(@, A)],
         [db EXCEPT !.tables[1] = append_column(suspended_column(@), A)],
         [db EXCEPT !.tables[1] = suspended_column(append_column(@, A))] }

\* a column spec titled B with the given keys and the given values; the
\* value of a key that is not in keys is never read
Cconf(keys, ref, start, filler, refs) ==
    [title |-> "B", keys |-> keys,
     copy_from |-> IF "copy_from" \in keys THEN ref ELSE <<>>,
     index_start |-> IF "index_start" \in keys THEN start ELSE StrScalar(""),
     fill_with |-> IF "fill_with" \in keys THEN filler ELSE StrScalar(""),
     dependence |-> IF "dependence" \in keys THEN refs ELSE <<>>,
     script |-> IF "dependence" \in keys THEN GreetScript ELSE ""]

CconfSpace ==
    { Cconf(keys, ref, start, filler, refs) :
        keys \in SUBSET {"copy_from", "index_start", "fill_with", "dependence"},
        ref \in {SourceRef, ThisRef("S", "A"), ThisRef("S", "C")},
        start \in {StrScalar("5"), ArgKeyword(0), IntScalar(5)},
        filler \in {StrScalar("z"), ArgKeyword(1)},
        refs \in {<<ThisRef("S", "A")>>, <<ThisRef("S", "C")>>} }

\* the positions that execute_migration has reserved in t
Reserved(t) == {n - 1 : n \in {m \in 1..Len(t.columns) : IsPlaceHolder(t.columns[m])}}

InitCconf ==
    /\ pc = "sheets"
    /\ config = <<>>
    /\ tgt_db \in CconfTargets
    /\ sus_list = UnboundSuspendedList
    /\ new_table = 1
    /\ error = NoError
    /\ log = <<>>
    /\ ended = <<>>
    /\ trace = <<>>
    /\ SLIdle
    /\ UnitIdle

ProcessCconf ==
    \E col_conf \in CconfSpace, pos \in {NoPos} \cup Reserved(tgt_db.tables[new_table]) :
        /\ calls = 0
        /\ calls' = 1
        /\ call' = <<col_conf, pos>>
        /\ tgt_db' = process_cconf(tgt_db, new_table, col_conf, pos).tgt_db
        /\ outcome' = [ret |-> process_cconf(tgt_db, new_table, col_conf, pos).ret,
                       exc |-> process_cconf(tgt_db, new_table, col_conf, pos).exc]
        /\ UNCHANGED <<pc, config, sus_list, new_table, error, log, ended, trace,
                       slVars, column, table, rows>>

NextCconf == ProcessCconf

SpecCconf == InitCconf /\ [][NextCconf]_vars

\* the first of the keys copy_from, index_start, fill_with, dependence that
\* the spec carries
FirstKey(keys) ==
    CHOOSE k \in {"copy_from", "index_start", "fill_with", "dependence", "empty"} :
        /\ k \in keys \cup {"empty"}
        /\ \A j \in keys :
              (j = "copy_from" => k = "copy_from")
              /\ (j = "index_start" => k \in {"copy_from", "index_start"})
              /\ (j = "fill_with" => k \in {"copy_from", "index_start", "fill_with"})

\* the places of t2 where a column stands that t1 does not hold there: the
\* place after the end of t1, or the place of a placeholder of t1
AddedAt(t1, t2) ==
    { n \in 1..Len(t2.columns) :
        n > Len(t1.columns) \/ t1.columns[n] # t2.columns[n] }

\* c is the column that the strategy named by key builds for conf on tgt
BuiltBy(key, conf, tgt, c) ==
    /\ c.title = conf.title
    /\ key = "copy_from" =>
          /\ c.kind = "Column"
          /\ c.data = dereference_column(src_db, ex_src_db, sub_db, tgt,
                                         conf.copy_from[1], conf.copy_from[2]).col.data
    /\ key = "index_start" => c.kind = "IndexColumn"
    /\ key = "fill_with" => c.kind = "FilledColumn"
    /\ key = "dependence" =>
          /\ c.kind = "Column"
          /\ c.data = Greeted(dereference_column(src_db, ex_src_db, sub_db, tgt,
                                                 conf.dependence[1][1],
                                                 conf.dependence[1][2]).col.data)
    /\ key = "empty" => c.kind = "EmptyColumn"

\* a process_cconf step: on success one place of the table changed, not a
\* place of a built column, and holds the column of the first key present;
\* on deferral nothing changed
OneStrategyApplied ==
    calls' = calls + 1 =>
        LET conf == call'[1]
            t1 == tgt_db.tables[new_table]
            t2 == tgt_db'.tables[new_table]
        IN /\ (outcome'.ret /\ outcome'.exc = "") =>
                 /\ Cardinality(AddedAt(t1, t2)) = 1
                 /\ Len(t2.columns) >= Len(t1.columns)
                 /\ \A n \in AddedAt(t1, t2) :
                       /\ n <= Len(t1.columns) => IsPlaceHolder(t1.columns[n])
                       /\ BuiltBy(FirstKey(conf.keys), conf, tgt_db, t2.columns[n])
           /\ (~outcome'.ret /\ outcome'.exc = "") =>
                 /\ tgt_db' = tgt_db
                 /\ FirstKey(conf.keys) \in {"copy_from", "dependence"}

----------------------------------------------------------------------------
(* dereference_column called once, for every form of table locator, on     *)
(* datasets that hold different cells under the same table and column      *)
(* names.  call is <<table_ref, column_ref>>, outcome the [exc, col] of    *)
(* the call.                                                               *)

\* a dataset with the one table name whose one column title holds data
OneTable(name, title, data) ==
    LET db == add_table(NewDatabase, name)
    IN [db EXCEPT !.tables[1] = append_column(@, NewColumn(title, data))]

\* the primary source: People and Pets, and two tables whose names read
\* like locators of the other datasets
DerefSource ==
    LET A == add_table(src_db, "_Add0.People")
        T == add_table([A EXCEPT !.tables[3] = append_column(@, NewColumn("Name", <<"s1">>))],
                       "_This.People")
    IN [T EXCEPT !.tables[4] = append_column(@, NewColumn("Name", <<"s2">>))]

\* ex_src_db: two auxiliary datasets
DerefAux == << OneTable("People", "Name", <<"a0">>), OneTable("People", "Name", <<"a1">>) >>

\* sub_db: the first row of People, and the second row of People under the
\* title that its first row gives
DerefSub ==
    get_sub_db(<<Subsheet("People", 0, 2, 0, 1), Subsheet("People", 1, 3, 0, 1)>>,
               DerefSource).db

\* the target under construction
DerefTargets ==
    { NewDatabase,
      OneTable("People", "Name", <<"t">>),
      OneTable("People", "Na me", <<"t">>),
      OneTable("S", "Name", <<"t">>) }

TableRefs ==
    { TableRef("_This.", name) : name \in {"People", "S", "Nope", ""} }
    \cup { NumberedRef(prefix, n, dot, name) :
             prefix \in {"_Add", "_Sub"}, n \in {NoDigits, 0, 1, 2},
             dot \in BOOLEAN, name \in {"People", "Nope", ""} }
    \cup { TableRef("", name) : name \in {"People", "Pets", "Nope"} }

ColumnRefs == {"Name", "Na", "Na me", "Nope", ""}

InitDeref ==
    /\ pc = "sheets"
    /\ config = <<>>
    /\ tgt_db \in DerefTargets
    /\ sus_list = UnboundSuspendedList
    /\ new_table = 1
    /\ error = NoError
    /\ log = <<>>
    /\ ended = <<>>
    /\ trace = <<>>
    /\ SLIdle
    /\ UnitIdle

Dereference ==
    \E table_ref \in TableRefs, column_ref \in ColumnRefs :
        /\ calls = 0
        /\ calls' = 1
        /\ call' = <<table_ref, column_ref>>
        /\ outcome' = dereference_column(DerefSource, DerefAux, DerefSub, tgt_db,
                                         table_ref, column_ref)
        /\ UNCHANGED <<migVars, slVars, column, table, rows>>

NextDeref == Dereference

SpecDeref == InitDeref /\ [][NextDeref]_vars

\* the forms of a locator, as the grammar gives them
ThisForm(ref) == ref.prefix = "_This." /\ ref.name # ""
AddForm(ref) == ref.prefix = "_Add" /\ ref.n >= 0 /\ ref.dot /\ ref.name # ""
SubForm(ref) == ref.prefix = "_Sub" /\ ref.n >= 0

\* the tables of db that carry the name
Named(db, name) == {db.tables[n] : n \in {m \in 1..Len(db.tables) : db.tables[m].name = name}}

\* the tables that the locator selects: at most one
SelectedTables(ref) ==
    IF ThisForm(ref) THEN Named(tgt_db, ref.name)
    ELSE IF AddForm(ref)
    THEN IF ref.n < Len(DerefAux) THEN Named(DerefAux[ref.n + 1], ref.name) ELSE {}
    ELSE IF SubForm(ref)
    THEN IF ref.n < Len(DerefSub.tables) THEN {DerefSub.tables[ref.n + 1]} ELSE {}
    ELSE Named(DerefSource, RefText(ref))

ColumnsOf(t) == {t.columns[n] : n \in 1..Len(t.columns)}

\* the columns of the selected table that carry the title
Titled(ref, title) ==
    {c \in UNION {ColumnsOf(t) : t \in SelectedTables(ref)} : c.title = title}

\* the outcome of the call: a column of the selected table, with the title
\* asked for unless the locator is a _Sub locator, or a lookup error when
\* the selected table or the column is missing
ResolvedInSelected ==
    LET ref == call[1]
        title == call[2]
    IN /\ outcome.exc \in {"", "KeyError", "IndexError"}
       /\ outcome.exc = "" =>
             /\ \E t \in SelectedTables(ref) : outcome.col \in ColumnsOf(t)
             /\ ~SubForm(ref) \/ ThisForm(ref) \/ AddForm(ref) => outcome.col.title = title
       /\ outcome.exc # "" => Titled(ref, title) = {}
       /\ Titled(ref, title) # {} => outcome.exc = ""

\* C19: dereference_column resolves the table locator by fixed precedence:
\* _This.<name> selects table <name> of the target dataset under
\* construction; otherwise _Add<N>.<name> selects table <name> of the N-th
\* auxiliary dataset; otherwise _Sub<N> selects the N-th sub-table;
\* otherwise the locator is a table name of the primary source dataset.
\* The column is looked up in that table only, and a missing table or
\* column gives a lookup error, never a column of another dataset.
C19_LocatorPrecedence == calls = 1 => ResolvedInSelected

\* the locator _Add0.People has been resolved to the column of the first
\* auxiliary dataset, although the primary source has a table of that name
C19_AddBeforeSource ==
    /\ calls = 1
    /\ call = <<NumberedRef("_Add", 0, TRUE, "People"), "Name">>
    /\ has_table(DerefSource, "_Add0.People")
    /\ outcome = [exc |-> "", col |-> NewColumn("Name", <<"a0">>)]

----------------------------------------------------------------------------
(* The version check.  A version is held as the sequence of its numbers,   *)
(* <<1, 0, 10>> for 1.0.10; the configuration carries its text, and the    *)
(* check compares texts as Python compares str values.                     *)

\* DataMigrator.__version__ = "1.0.3"
EngineVersion == <<1, 0, 3>>

\* str(n) as a sequence of characters, for the numbers of this model
DecimalChars(n) ==
    IF n < 10 THEN <<DigitsText(n)>> ELSE <<DigitsText(n \div 10), DigitsText(n % 10)>>

\* the text of a version: the numbers joined by dots
RECURSIVE VersionText(_)
VersionText(v) ==
    IF Len(v) = 0 THEN <<>>
    ELSE IF Len(v) = 1 THEN DecimalChars(v[1])
    ELSE DecimalChars(v[1]) \o <<".">> \o VersionText(Tail(v))

\* ord(ch) for the characters of a version text
Ord(ch) ==
    CASE ch = "." -> 46
      [] ch = "0" -> 48 [] ch = "1" -> 49 [] ch = "2" -> 50 [] ch = "3" -> 51
      [] OTHER -> 57

\* a > b for str values: the first place where they differ decides, and a
\* text is greater than each of its proper prefixes
RECURSIVE StrGreater(_, _)
StrGreater(a, b) ==
    IF a = <<>> THEN FALSE
    ELSE IF b = <<>> THEN TRUE
    ELSE IF Head(a) = Head(b) THEN StrGreater(Tail(a), Tail(b))
    ELSE Ord(Head(a)) > Ord(Head(b))

\* a configuration without a version field
NoVersion == <<>>

\* parse_migration_config, line 47: the check that raises
VersionRejected(version) ==
    version # NoVersion /\ StrGreater(VersionText(version), VersionText(EngineVersion))

\* the versions that the configurations of this model carry
Versions == { <<1, 0, 2>>, <<1, 0, 3>>, <<1, 0, 9>>, <<1, 0, 10>>, <<1, 1, 0>>, <<0, 9, 9>> }

\* execute_migration before line 251: the configuration is a path of a
\* file still to be parsed, or a dict
InitVersion ==
    /\ pc = "load"
    /\ config = <<>>
    /\ tgt_db = NewDatabase
    /\ sus_list = UnboundSuspendedList
    /\ new_table = 0
    /\ error = NoError
    /\ log = <<>>
    /\ ended = <<>>
    /\ trace = <<>>
    /\ SLIdle
    /\ column = PlaceHolderColumn
    /\ table = NewTable("")
    /\ \E s \in {Absent, <<Subsheet("People", 0, -1, 0, -1)>>},
          pre \in {Absent, AddTableHook}, post \in {Absent, PassHook},
          version \in Versions \cup {NoVersion}, given_as \in {"path", "dict"} :
          call = [subsheets |-> s, pre |-> pre, post |-> post,
                  version |-> version, given_as |-> given_as]
    /\ outcome = <<>>
    /\ rows = <<>>
    /\ calls = 0

\* lines 251-252: only a configuration that is not a dict is parsed, and
\* only parse_migration_config checks the version
LoadConfig ==
    /\ pc = "load"
    /\ pc' = IF call.given_as = "path" /\ VersionRejected(call.version)
             THEN "raised" ELSE "start"
    /\ error' = IF call.given_as = "path" /\ VersionRejected(call.version)
                THEN [type |-> "Exception", lines |-> <<>>] ELSE error
    /\ UNCHANGED <<config, tgt_db, sus_list, new_table, log, ended, trace,
                   slVars, unitVars>>

NextVersion ==
    \/ LoadConfig
    \/ DeriveSubTables
    \/ PreHook
    \/ NoPreHook
    \/ AddTable
    \/ HookColumn
    \/ EndColumns
    \/ DrainCheckRaises
    \/ PostHook
    \/ NoPostHook

SpecVersion == InitVersion /\ [][NextVersion]_vars

\* version order: the first number that differs decides, and a version is
\* newer than each of its proper prefixes
RECURSIVE Newer(_, _)
Newer(v, w) ==
    IF v = <<>> THEN FALSE
    ELSE IF w = <<>> THEN TRUE
    ELSE IF Head(v) = Head(w) THEN Newer(Tail(v), Tail(w))
    ELSE Head(v) > Head(w)

\* the run has not begun to process: no sub-table derived, no hook run, no
\* table created
NothingProcessed == pc \in {"load", "raised"} /\ trace = <<>> /\ tgt_db = NewDatabase

\* C20: if the configuration has a version field newer than the engine's
\* own version, the migration aborts with a compatibility error before any
\* processing begins (no hook run, no target table created), whether the
\* configuration is given as a file path or as an already-parsed object,
\* where newer follows version order (1.0.10 is newer than 1.0.3).
C20_NewerVersionAborts ==
    (call.version # NoVersion /\ Newer(call.version, EngineVersion)) =>
        /\ NothingProcessed
        /\ pc = "raised" => error.type = "Exception"

----------------------------------------------------------------------------
(* Argument substitution, on the process_cconf calls of SpecCconf.         *)

\* the integer that an index_start scalar stands for after substitution:
\* the literal itself, or the element of the argument list that the
\* placeholder names ("7" for _arg0)
StartValue(s) ==
    IF s.type = "int" THEN s.n
    ELSE IF s.type = "arg" THEN (IF s.index = 0 THEN 7 ELSE 0)
    ELSE 5

\* the value that a fill_with scalar stands for after substitution ("z"
\* for _arg1)
FillValue(s) == IF s.type = "arg" THEN "z" ELSE s.s

\* the target table holds the column c
Holds(c) ==
    \E n \in 1..Len(tgt_db.tables[new_table].columns) :
        tgt_db.tables[new_table].columns[n] = c

\* C21: a scalar of the form _arg<N> is replaced by the N-th element of
\* the argument list and every other scalar is used unchanged; for
\* index_start the Index column starts at the resulting integer, also for
\* an integer literal, and for fill_with the Filled column yields the
\* resulting value.
C21_ArgumentSubstitution ==
    /\ (calls = 1 /\ FirstKey(call[1].keys) = "index_start") =>
          /\ outcome = [ret |-> TRUE, exc |-> ""]
          /\ Holds(IndexColumn("B", StartValue(call[1].index_start)))
    /\ (calls = 1 /\ FirstKey(call[1].keys) = "fill_with") =>
          /\ outcome = [ret |-> TRUE, exc |-> ""]
          /\ Holds(FilledColumn("B", FillValue(call[1].fill_with)))

----------------------------------------------------------------------------
(* Lists as objects.  rows is the store of the list objects, a list being  *)
(* known by its place in the store; a column of this section holds in data *)
(* the place of its list, so that two columns can hold one list.  column   *)
(* is the referred column of the source, table the target table.           *)

MaxAliasOps == 3

\* a datetime cell, and str cells
Date1 == "<datetime 2024-01-02>"

\* mapping_functions.datefix for the cells of this model: [exc, val]
datefix(v) ==
    IF v = NULL THEN [exc |-> "", val |-> ""]
    ELSE IF v = Date1 THEN [exc |-> "", val |-> "20240102"]
    ELSE [exc |-> "TypeError", val |-> v]

\* the mapping argument of Column.__init__
DictMapping(d) == [type |-> "dict", dict |-> d]
FuncMapping == [type |-> "func", dict |-> EmptyDict]

\* line 38: the default of the argument
DefaultMapping == DictMapping(DictSet(EmptyDict, "_Other", "_Origin"))

\* self.data = data.data: the list of the referred column itself
SharedList(store, place) == [store |-> store, place |-> place]

\* data.data.copy(): a new list with the same cells
ListCopy(store, place) == [store |-> Append(store, store[place]), place |-> Len(store) + 1]

\* Column._mapping_func: a new list of the mapped cells is bound to
\* self.data; None cells are not passed to the function
MappedByFunc(data) ==
    IF \E i \in 1..Len(data) : data[i] # NULL /\ datefix(data[i]).exc # ""
    THEN [exc |-> "TypeError", data |-> data]
    ELSE [exc |-> "",
          data |-> [i \in 1..Len(data) |->
                       IF data[i] = NULL THEN NULL ELSE datefix(data[i]).val]]

\* lines 59-62 on the list copied at lines 54-58: the dict mapping writes
\* the cells of the list in place, the function mapping binds a new list
Mapped(c, mapping) ==
    IF mapping.type = "dict"
    THEN [exc |-> mapping_dict(c.store[c.place], mapping.dict).exc,
          store |-> [c.store EXCEPT ![c.place] = mapping_dict(c.store[c.place], mapping.dict).data],
          place |-> c.place]
    ELSE [exc |-> MappedByFunc(c.store[c.place]).exc,
          store |-> IF MappedByFunc(c.store[c.place]).exc # "" THEN c.store
                    ELSE Append(c.store, MappedByFunc(c.store[c.place]).data),
          place |-> Len(c.store) + 1]

\* Column(title, comment, data = src_col, mapping = ...), lines 50-66, for
\* a Column src_col (always true at line 54): [exc, store, place]
Column_from(store, src_col, mapping) == Mapped(ListCopy(store, src_col.data), mapping)

\* the column whose list is at the place, with its cells
View(store, c) == [c EXCEPT !.data = store[c.data]]

\* c.del_row(index) and c.swap_row(i0, i1) write the list of c
DelInPlace(store, c, index) ==
    [store EXCEPT ![c.data] = Column_del_row(View(store, c), index).data]

SwapInPlace(store, c, i0, i1) ==
    [store EXCEPT ![c.data] = Column_swap_row(View(store, c), i0, i1).data]

\* the loop of Table.del_row, lines 408-409, from column n on
RECURSIVE DelInColumns(_, _, _, _)
DelInColumns(store, cols, n, index) ==
    IF n > Len(cols) THEN store
    ELSE DelInColumns(DelInPlace(store, cols[n], index), cols, n + 1, index)

\* the loop of Table.swap_row, lines 422-423, from column n on
RECURSIVE SwapInColumns(_, _, _, _, _)
SwapInColumns(store, cols, n, i0, i1) ==
    IF n > Len(cols) THEN store
    ELSE SwapInColumns(SwapInPlace(store, cols[n], i0, i1), cols, n + 1, i0, i1)

AliasSources == SeqsUpTo({"a", NULL, Date1}, 2)

AliasMappings ==
    { DefaultMapping, FuncMapping,
      DictMapping(DictSet(EmptyDict, "a", "X")),
      DictMapping(DictSet(DictSet(EmptyDict, "a", "X"), "_Other", "_Origin")),
      DictMapping(DictSet(EmptyDict, "_Other", "Y")) }

AliasRows == {0, 1}

InitAlias ==
    /\ MigIdle
    /\ SLIdle
    /\ rows \in {<<data>> : data \in AliasSources}
    /\ column = NewColumn("Name", 1)
    /\ table = NewTable("S")
    /\ call = <<>>
    /\ outcome = ""
    /\ calls = 0

\* process_cconf, lines 153-177: add_column(Column, data = src_col[,
\* mapping = ...]), the column appended to the target table
CopyColumn ==
    \E mapping \in AliasMappings :
        /\ calls < MaxAliasOps
        /\ Len(table.columns) < Len(Titles)
        /\ calls' = calls + 1
        /\ call' = <<"copy_from", mapping>>
        /\ outcome' = Column_from(rows, column, mapping).exc
        /\ rows' = Column_from(rows, column, mapping).store
        /\ table' = IF Column_from(rows, column, mapping).exc # "" THEN table
                    ELSE [table EXCEPT
                            !.columns = Append(@, NewColumn(Titles[Len(table.columns) + 1],
                                                            Column_from(rows, column, mapping).place)),
                            !.column_index = DictSet(@, Titles[Len(table.columns) + 1],
                                                     Len(table.columns)),
                            !.max_row_num =
                                Max(Len(rows'[Column_from(rows, column, mapping).place]), @)]
        /\ UNCHANGED <<migVars, slVars, column>>

\* del_row on a column of the target
AliasColumnDelRow ==
    \E n \in 1..Len(table.columns), index \in AliasRows :
        /\ calls < MaxAliasOps
        /\ calls' = calls + 1
        /\ call' = <<"Column.del_row", n, index>>
        /\ outcome' = ""
        /\ rows' = DelInPlace(rows, table.columns[n], index)
        /\ UNCHANGED <<migVars, slVars, column, table>>

\* swap_row on a column of the target
AliasColumnSwapRow ==
    \E n \in 1..Len(table.columns), i0, i1 \in AliasRows :
        /\ calls < MaxAliasOps
        /\ calls' = calls + 1
        /\ call' = <<"Column.swap_row", n, i0, i1>>
        /\ outcome' = ""
        /\ rows' = SwapInPlace(rows, table.columns[n], i0, i1)
        /\ UNCHANGED <<migVars, slVars, column, table>>

\* Table.del_row on the target
AliasTableDelRow ==
    \E index \in AliasRows :
        /\ calls < MaxAliasOps
        /\ calls' = calls + 1
        /\ call' = <<"Table.del_row", index>>
        /\ outcome' = ""
        /\ rows' = DelInColumns(rows, table.columns, 1, index)
        /\ table' = [table EXCEPT !.max_row_num = @ - 1]
        /\ UNCHANGED <<migVars, slVars, column>>

\* Table.swap_row on the target
AliasTableSwapRow ==
    \E i0, i1 \in AliasRows :
        /\ calls < MaxAliasOps
        /\ calls' = calls + 1
        /\ call' = <<"Table.swap_row", i0, i1>>
        /\ outcome' = IF i0 # i1 /\ table.max_row_num <= Max(i0, i1) THEN "IndexError" ELSE ""
        /\ rows' = IF i0 = i1 \/ table.max_row_num <= Max(i0, i1) THEN rows
                   ELSE SwapInColumns(rows, table.columns, 1, i0, i1)
        /\ UNCHANGED <<migVars, slVars, column, table>>

NextAlias ==
    \/ CopyColumn
    \/ AliasColumnDelRow
    \/ AliasColumnSwapRow
    \/ AliasTableDelRow
    \/ AliasTableSwapRow

SpecAlias == InitAlias /\ [][NextAlias]_vars

\* the cells of the referred column
SourceCells == rows[column.data]

\* C22: the engine leaves source data unchanged: constructing a target
\* column by copy_from (verbatim, with a mapping table or with a mapping
\* function) copies the cell values, so the cells of the referred column
\* are the same before and after, and a later del_row or swap_row on the
\* target column or the target table does not change the referred column.
C22_SourceUnchanged == [][SourceCells' = SourceCells /\ column' = column]_vars

\* a column was copied with a mapping table that rewrote a cell, and a row
\* operation then changed the list of the copy
C22_CopyMappedThenChanged ==
    /\ calls >= 2
    /\ call[1] \in {"Column.del_row", "Column.swap_row", "Table.del_row", "Table.swap_row"}
    /\ Len(table.columns) >= 1
    /\ SourceCells = <<"a", Date1>>
    /\ rows[table.columns[1].data] = <<Date1, "X">>

----------------------------------------------------------------------------
(* C23: a dependence on several columns of the same sheet, in every        *)
(* declaration order (Spec).                                               *)

\* the one-sheet configurations whose columns are built from the source,
\* but for column d, which depends on the two other columns of the sheet
SeveralThisOrders ==
    UNION { { <<[name |-> "S",
                 columns |-> [i \in 1..3 |->
                     IF i = d
                     THEN Dependence(Titles[i],
                                     <<ThisRef("S", Titles[p[1]]), ThisRef("S", Titles[p[2]])>>)
                     ELSE CopyFrom(Titles[i], SourceRef)]]>> :
                p \in {q \in (1..3) \X (1..3) : q[1] # q[2] /\ q[1] # d /\ q[2] # d} } :
            d \in 1..3 }

\* C23: a column whose dependence list names several "_This." columns of
\* its own sheet is built under every declaration order of the columns,
\* also when some referred columns are declared before it and others after
\* it: the columns available when it is deferred are not waited for, it is
\* released when the last missing one is built, and the run raises no
\* dependency error.
C23_SeveralThisAnyOrder ==
    (Terminated /\ config \in SeveralThisOrders) =>
        /\ pc = "returned"
        /\ \A c \in 1..3 : HasColumn(tgt_db.tables[1], Titles[c])
        /\ \A i \in 1..Len(sus_list.objs) : sus_list.objs[i].released

----------------------------------------------------------------------------
(* C24: releases under arbitrary append and check calls (SpecSL).          *)

\* the calls of the release function made for the object appended with
\* the given index
ReleaseCalls(index) == {j \in 1..Len(released) : released[j].index = index}

\* the keys of object i as append received them, repeats kept
AppendedKeys(i) == ThisKeys(sl.objs[i].conf.dependence)

\* C24: in any sequence of defer and notify operations the release of a
\* deferred entry fires at most once, also when its dependency list names
\* the same key more than once, when it is registered under several keys,
\* or when the same key is notified repeatedly; and notify never raises
\* while it removes a key from the unmet set of an entry.
C24_ReleaseAtMostOnce ==
    /\ \A i \in 1..Len(sl.objs) : Cardinality(ReleaseCalls(i - 1)) <= 1
    /\ \A i \in 1..Len(sl.objs) : sl.objs[i].released => Cardinality(ReleaseCalls(i - 1)) = 1
    /\ sl_exc # "ValueError"

\* an object appended with the same key twice and an object appended with
\* two different keys have both been released, each by one call
C24_RepeatedKeyReleasedOnce ==
    /\ Len(sl.objs) = 2
    /\ \E i, k \in 1..2 :
          /\ Len(AppendedKeys(i)) = 2 /\ AppendedKeys(i)[1] = AppendedKeys(i)[2]
          /\ Len(AppendedKeys(k)) = 2 /\ AppendedKeys(k)[1] # AppendedKeys(k)[2]
    /\ \A i \in 1..2 : sl.objs[i].released /\ Cardinality(ReleaseCalls(i - 1)) = 1

----------------------------------------------------------------------------
(* C25: append of an entry without a "_This." reference (SpecSL).          *)

\* the wait_for arguments none of whose references is a "_This." one
NoThisLists == {w \in WaitLists : \A r \in Range(w) : ~MatchThis(r[1])}

\* the append call fails and leaves the list and the releases as they were
DeferFails ==
    /\ sl_exc' = "DependencyError"
    /\ sl' = sl
    /\ released' = released

\* every object of the list was appended with a "_This." reference
EveryEntryHasThisKey ==
    \A i \in 1..Len(sl.objs) : ThisKeys(sl.objs[i].conf.dependence) # <<>>

\* C25: append of an entry none of whose references has a "_This." locator
\* fails at defer time with a fatal error and leaves the waitlist
\* unchanged: the entry is registered under no key and is never released
\* later.
C25_DeferWithoutThisFails ==
    /\ [](EveryEntryHasThisKey)
    /\ [][\A w \in NoThisLists : Defer(w) => DeferFails]_vars
    /\ [][sl_exc' = "DependencyError" => DeferFails]_vars

\* an append without a "_This." reference has failed on a list that holds
\* an entry waiting under its key
C25_FailedOnHeldList ==
    /\ sl_exc = "DependencyError"
    /\ Len(sl.objs) = 1
    /\ Len(sl.waitlist) = 1
    /\ ~sl.objs[1].released

----------------------------------------------------------------------------
(* C26: swap_row on an IndexColumn (SpecIndexSwap).                        *)

\* a swap_row(i0, i1) step that completed and exchanged the two rows,
\* every other row reading as before
SwapsRows ==
    (calls' = calls + 1 /\ call'.op = "swap_row") =>
        /\ outcome' = ""
        /\ get_data(column', call'.i0) = get_data(column, call'.i1)
        /\ get_data(column', call'.i1) = get_data(column, call'.i0)
        /\ \A r \in (0..(Window + MaxRow)) \ {call'.i0, call'.i1} :
              get_data(column', r) = get_data(column, r)

\* C26: for every Index column and rows i, j, lazy or materialized,
\* swap_row(i, j) completes without error; afterwards get_data(i) is the
\* previous get_data(j), get_data(j) the previous get_data(i), and
\* get_data(r) is unchanged for every other row r, the still lazy rows
\* beyond max(i, j) included.
C26_IndexColumnSwapRow == [][SwapsRows]_vars

----------------------------------------------------------------------------
(* C27: Table.move_to_end (SpecTable).                                     *)

\* column c2 reads as column c1 with row k moved behind row n - 1
RowMovedToEnd(c1, c2, k, n) ==
    /\ get_data(c2, n - 1) = get_data(c1, k)
    /\ \A r \in k..(n - 2) : get_data(c2, r) = get_data(c1, r + 1)
    /\ \A r \in 0..(k - 1) : get_data(c2, r) = get_data(c1, r)

\* a move_to_end(k) step on a table of n rows
MovesToEnd ==
    (calls' = calls + 1 /\ call'.op = "move_to_end") =>
        LET k == call'.args[1]
            n == table.max_row_num
        IN IF k < n
           THEN /\ outcome' = ""
                /\ Len(table'.columns) = Len(table.columns)
                /\ \A c \in 1..Len(table.columns) :
                      RowMovedToEnd(table.columns[c], table'.columns[c], k, n)
                /\ table'.max_row_num = n
           ELSE /\ outcome' = "IndexError"
                /\ table' = table

\* C27: move_to_end(k) on a table with n rows and k < n has, for every
\* column, the net effect of a cascade of adjacent swaps: the content of
\* row k is at row n - 1, the rows k + 1 .. n - 1 are each moved up by one
\* in their order, the rows before k are unchanged, and the row count is
\* unchanged; for k >= n it raises an index error and changes nothing.
C27_MoveToEnd == [][MovesToEnd]_vars

----------------------------------------------------------------------------
(* database.py: a Table built from row-oriented input.  rows is the input, *)
(* the rows that ws.rows or the csv reader yields, each a list of cell     *)
(* values; table is the Table t under construction; pc is the place in     *)
(* create_from_worksheet / create_from_csv: "read" before the loop over    *)
(* the input, "ends" in the loop of _clear_empty_ends, "rows" in the loop  *)
(* of _clear_empty_rows with calls as its index i, "done" when the table   *)
(* is returned, "raised" when an exception left the function.              *)

MaxInputRows == 3
\* _pop_back calls followed below a row count of 0
MaxPops == 2

\* lines 466-470 and 489-492: the first row read while t has no column
\* gives the columns, one per cell
WithHeader(t, r) ==
    [t EXCEPT !.columns = [j \in 1..Len(r) |-> NewColumn(r[j], <<>>)],
              !.column_index = [x \in Range(r) |->
                                   (CHOOSE j \in 1..Len(r) :
                                       r[j] = x /\ \A k \in (j + 1)..Len(r) : r[k] # x) - 1]]

\* lines 473-474 and 494-495: t.columns[j].add_data(cell) for the cells of
\* a row no longer than the list of columns
WithData(t, r) ==
    [t EXCEPT !.columns = [j \in 1..Len(t.columns) |->
                              IF j <= Len(r)
                              THEN [t.columns[j] EXCEPT !.data = Append(@, r[j])]
                              ELSE t.columns[j]]]

\* the loop over the input from row n on, and its else clause, which binds
\* _max_row_num to the last value of i; i is unbound when the input is
\* empty, and t.columns[j] raises for a row longer than the list of columns
RECURSIVE ReadFrom(_, _, _)
ReadFrom(t, input, n) ==
    IF n > Len(input)
    THEN IF Len(input) = 0 THEN [exc |-> "UnboundLocalError", t |-> t]
         ELSE [exc |-> "", t |-> [t EXCEPT !.max_row_num = Len(input) - 1]]
    ELSE IF t.columns = <<>> THEN ReadFrom(WithHeader(t, input[n]), input, n + 1)
    ELSE IF Len(input[n]) > Len(t.columns) THEN [exc |-> "IndexError", t |-> t]
    ELSE ReadFrom(WithData(t, input[n]), input, n + 1)

\* Table._check_empty_ends from column n on
RECURSIVE check_empty_ends(_, _)
check_empty_ends(t, n) ==
    IF n > Len(t.columns) THEN TRUE
    ELSE IF Count(t.columns[n]) = 0 THEN FALSE
    ELSE IF Len(t.columns[n].data) < t.max_row_num THEN check_empty_ends(t, n + 1)
    ELSE IF t.columns[n].data[Len(t.columns[n].data)] # NULL THEN FALSE
    ELSE check_empty_ends(t, n + 1)

\* Table._check_empty_row from column n on: "True", "False", or
\* "IndexError" for c.data[rindex] on a column of exactly rindex cells
RECURSIVE check_empty_row(_, _, _)
check_empty_row(t, rindex, n) ==
    IF n > Len(t.columns) THEN "True"
    ELSE IF Len(t.columns[n].data) < rindex THEN check_empty_row(t, rindex, n + 1)
    ELSE IF Len(t.columns[n].data) = rindex THEN "IndexError"
    ELSE IF t.columns[n].data[rindex + 1] # NULL THEN "False"
    ELSE check_empty_row(t, rindex, n + 1)

\* del data[m:]
DelFrom(data, m) ==
    IF m >= 0 THEN SubSeq(data, 1, m) ELSE SubSeq(data, 1, Max(Len(data) + m, 0))

\* Table._pop_back
pop_back(t) ==
    [t EXCEPT !.max_row_num = @ - 1,
              !.columns = [n \in 1..Len(t.columns) |->
                              IF Count(t.columns[n]) > t.max_row_num - 1
                              THEN [t.columns[n] EXCEPT !.data = DelFrom(@, t.max_row_num - 1)]
                              ELSE t.columns[n]]]

\* the rows of the inputs of this model: a blank line, or w cells
InputRows(w) == {<<>>} \cup [1..w -> {NULL, "x"}]

HeaderRow(w) == [j \in 1..w |-> Titles[j]]

\* the inputs: nothing, blank lines only, or a header row, after a blank
\* line or not, followed by up to MaxInputRows rows
Inputs ==
    { <<>>, << <<>> >>, << <<>>, <<>> >> }
    \cup UNION { { lead \o <<HeaderRow(w)>> \o data :
                     lead \in { <<>>, << <<>> >> },
                     data \in {<<>>} \cup SeqsUpTo(InputRows(w), MaxInputRows) } :
                 w \in 1..2 }

InitRows ==
    /\ pc = "read"
    /\ config = <<>>
    /\ tgt_db = NewDatabase
    /\ sus_list = UnboundSuspendedList
    /\ new_table = 0
    /\ error = NoError
    /\ log = <<>>
    /\ ended = <<>>
    /\ trace = <<>>
    /\ SLIdle
    /\ column = PlaceHolderColumn
    /\ table = NewTable("csv")
    /\ call = <<>>
    /\ outcome = ""
    /\ rows \in Inputs
    /\ calls = 0

RowsFrame == UNCHANGED <<config, tgt_db, sus_list, new_table, error, log, ended, trace,
                         slVars, column, call, rows>>

\* the loop over the input, lines 462-476 and 486-497
ReadRows ==
    /\ pc = "read"
    /\ table' = ReadFrom(table, rows, 1).t
    /\ outcome' = ReadFrom(table, rows, 1).exc
    /\ pc' = IF ReadFrom(table, rows, 1).exc # "" THEN "raised" ELSE "ends"
    /\ UNCHANGED calls
    /\ RowsFrame

\* a round of the while loop of _clear_empty_ends
PopBack ==
    /\ pc = "ends"
    /\ check_empty_ends(table, 1)
    /\ table.max_row_num > -MaxPops
    /\ table' = pop_back(table)
    /\ UNCHANGED <<pc, outcome, calls>>
    /\ RowsFrame

\* the while loop ends; range(self._max_row_num - 1, -1, -1) is built
EndsCleared ==
    /\ pc = "ends"
    /\ ~check_empty_ends(table, 1)
    /\ pc' = "rows"
    /\ calls' = table.max_row_num - 1
    /\ UNCHANGED <<table, outcome>>
    /\ RowsFrame

\* a round of the loop of _clear_empty_rows
ClearRow ==
    /\ pc = "rows"
    /\ calls >= 0
    /\ table' = IF check_empty_row(table, calls, 1) = "True"
                THEN Table_del_row(table, calls) ELSE table
    /\ outcome' = IF check_empty_row(table, calls, 1) = "IndexError"
                  THEN "IndexError" ELSE outcome
    /\ pc' = IF check_empty_row(table, calls, 1) = "IndexError" THEN "raised" ELSE pc
    /\ calls' = calls - 1
    /\ RowsFrame

\* the loop is exhausted and t is returned
RowsCleared ==
    /\ pc = "rows"
    /\ calls < 0
    /\ pc' = "done"
    /\ UNCHANGED <<table, outcome, calls>>
    /\ RowsFrame

NextRows == ReadRows \/ PopBack \/ EndsCleared \/ ClearRow \/ RowsCleared

SpecRows == InitRows /\ [][NextRows]_vars

\* the function runs on while it can
SpecRowsLive == SpecRows /\ WF_vars(NextRows)

\* the rows of the input after its header row, the first row with a cell
DataRows ==
    IF \A n \in 1..Len(rows) : rows[n] = <<>> THEN <<>>
    ELSE SubSeq(rows, 1 + (CHOOSE n \in 1..Len(rows) :
                              rows[n] # <<>> /\ \A m \in 1..(n - 1) : rows[m] = <<>>),
                Len(rows))

\* a row with a cell that is not null
NotEmptyRow(r) == \E j \in 1..Len(r) : r[j] # NULL

\* the table returned holds the data rows of the input that are not empty,
\* in their order, and nothing else
HoldsNonEmptyRows ==
    LET kept == SelectSeq(DataRows, NotEmptyRow)
    IN /\ table.max_row_num = Len(kept)
       /\ \A n \in 1..Len(table.columns) :
             /\ Len(table.columns[n].data) = Len(kept)
             /\ \A r \in 1..Len(kept) : table.columns[n].data[r] = kept[r][n]
       /\ \A r \in 0..(table.max_row_num - 1) :
             \E n \in 1..Len(table.columns) : get_data(table.columns[n], r) # NULL

\* C28: a table built from row-oriented input (create_from_worksheet,
\* create_from_csv) contains no fully empty row, whether such rows were
\* trailing or in the middle; all rows that are not empty are kept in their
\* order, the row count is the number of data rows that are not empty, and
\* the stripping loops terminate for every input: every round of the loop
\* of _clear_empty_ends strips a row that the table has, so the rounds are
\* no more than the rows read, and the function comes to its end.
C28_EmptyRowsStripped ==
    /\ [](pc = "done" => HoldsNonEmptyRows)
    /\ [][PopBack => table.max_row_num > 0]_vars
    /\ <>(pc \in {"done", "raised"})

----------------------------------------------------------------------------
\* a mapping with an entry that is not _Origin and without the key _Other
WithoutOther(mapping) == ~AllOrigin(mapping) /\ "_Other" \notin DOMAIN mapping

\* the cells that are no key of the mapping are as before, whatever the
\* other cells are, and the call returns
UnlistedCellsKept(before, mapping, after, exc) ==
    /\ exc = ""
    /\ Len(after) = Len(before)
    /\ \A i \in 1..Len(before) : before[i] \notin DOMAIN mapping => after[i] = before[i]

\* C29: when a mapping table has at least one entry that is not _Origin and
\* no _Other key, a cell whose value has no entry of its own is left
\* unchanged: the substitution does not raise, and what a cell becomes does
\* not depend on the other cells of the column, the cell processed just
\* before it included.
C29_UnlistedCellUnchanged ==
    [][(calls' = calls + 1 /\ WithoutOther(call'[Len(call')]))
          => UnlistedCellsKept(column.data, call'[Len(call')], column'.data, outcome')]_vars

----------------------------------------------------------------------------
(* execute_migration runs on, and its configuration is finite: the loop of *)
(* line 284 comes to the end of the sheet's columns and the loop of line   *)
(* 277 to the end of the sheets.                                           *)

SpecLive == Spec /\ WF_vars(EndColumns \/ Finish)

\* the process_cconf calls for the column of the given title of table ti
AttemptsAt(ti, title) == {a \in 1..Len(log) : log[a].table = ti /\ log[a].title = title}

\* the column was attempted once at its declaration (no position given)
\* and at most once more, at a release (at its reserved position)
TwoAttemptsAtMost(ti, title) ==
    /\ Cardinality({a \in AttemptsAt(ti, title) : log[a].pos = NoPos}) <= 1
    /\ Cardinality({a \in AttemptsAt(ti, title) : log[a].pos # NoPos}) <= 1
    /\ \A a, b \in AttemptsAt(ti, title) :
          (log[a].pos = NoPos /\ log[b].pos # NoPos) => a < b

\* every call of process_cconf is for a declared column
AttemptsDeclared ==
    \A a \in 1..Len(log) :
        /\ log[a].table \in 1..Len(config)
        /\ \E j \in 1..Len(config[log[a].table].columns) :
               config[log[a].table].columns[j].title = log[a].title

\* C30: for every finite configuration execute_migration terminates, by
\* returning or by raising: the construction of each declared column is
\* attempted at most twice, once at its declaration and at most once more
\* when it is released, and deferral never loops.
C30_TerminatesWithinTwoAttempts ==
    /\ [](AttemptsDeclared /\
          \A i \in 1..Len(config) : \A j \in 1..Len(config[i].columns) :
              TwoAttemptsAtMost(i, config[i].columns[j].title))
    /\ [](Len(log) <= 2 * TotalCols(config))
    /\ <>Terminated

\* the run returned and a column deferred at its declaration was attempted
\* a second time at its release
C30_ReturnedAfterSecondAttempt ==
    /\ pc = "returned"
    /\ \E a, b \in 1..Len(log) :
          /\ a < b
          /\ log[a].table = log[b].table
          /\ log[a].title = log[b].title
          /\ log[a].pos = NoPos
          /\ ~log[a].ret
          /\ log[b].pos # NoPos
          /\ log[b].ret

====
